---------------------------- MODULE Spec2Model ----------------------------
(***************************************************************************)
(* Sovereign Shield: the Inevitability Gate (inevitability_gate.py), the  *)
(* C=0 proof chain (proof_chain.py) and the shield orchestrator (core.py) *)
(* as a state machine.                                                     *)
(*                                                                         *)
(* Conventions.  Registries keyed by a fresh uuid4 are sequences and the  *)
(* id is the position (0 stands for None).  A digest is the string of     *)
(* its preimage wrapped in its algorithm's name, so two digests are equal *)
(* exactly when their preimages are (collision-free).  A Python exception *)
(* leaving a call is the outcome "raise"; whatever the call had written   *)
(* before the exception stays written.                                     *)
(***************************************************************************)
EXTENDS Integers, Sequences, FiniteSets, TLC

VARIABLES
    executions,   \* InevitabilityGate._executions
    nodes,        \* SovereignShield._nodes
    identities,   \* HDIdentitySystem._identities
    saltCounter,  \* number of salts drawn so far by generate_bio_hash
    flows,        \* SovereignShield._capital_flows
    thresholds,   \* SovereignShield._collapse_thresholds
    status,       \* SovereignShield.status
    metrics,      \* SovereignShield.metrics
    chains,       \* ProofChainGenerator._chains (the caller holds the same lists)
    receipts,     \* the receipts generate_receipt has returned
    verification_history,  \* C0Verifier._verification_history
    threads,      \* concurrent initiate_capital_flow calls in progress
    bark,         \* BARKValidator: the violation and validation histories
    engine,       \* ChatEngine: its sessions, and the clock it reads
    ret           \* what the last call returned (or that it raised)

vars == <<executions, nodes, identities, saltCounter, flows, thresholds,
          status, metrics, chains, receipts, verification_history, threads,
          bark, engine, ret>>

-----------------------------------------------------------------------------
(* Bounds of the model *)

MaxExecutions == 3
MaxNodes == 2
MaxFlows == 2
MaxChains == 1
MaxReceipts == 1
MaxVerifications == 1
MaxMetric == 2
NumThreads == 2
MaxSalts == 3
MaxValidations == 1
MaxViolationFlows == 1
MaxStagedExecutions == 1
MaxIterationsLimit == 6
MaxSessions == 2
MaxHistory == 4
MaxTicks == 2
MaxHosts == 3

-----------------------------------------------------------------------------
(* Small helpers *)

None == "<None>"

Range(s) == {s[i] : i \in DOMAIN s}

Min(a, b) == IF a <= b THEN a ELSE b

NoRet == [op |-> "none", outcome |-> "none"]

-----------------------------------------------------------------------------
(* Inevitability Gate: inevitability_gate.py *)

\* The values of the enum GateStage.
GateStage ==
    {"registration", "shadowing", "challenge_window", "canary_rollout",
     "final_permit"}

\* Two faulty variants of the stage list below: with the first two stages
\* swapped (C2 is tested against it) and with no stage at all, so that the
\* gate approves everything (C5 is tested against it).
GateStagesSwapped ==
    <<"shadowing", "registration", "challenge_window", "canary_rollout",
      "final_permit">>

GateStagesNone == <<>>

\* The list execute_full_gate iterates over.
GateStages ==
    <<"registration", "shadowing", "challenge_window", "canary_rollout",
      "final_permit">>

\* InevitabilityGate.__init__ defaults.
NumShadowHosts == 3
CanaryPercent == 1

\* What an execution_logic argument can be: None, a callable that returns the
\* same value on every host, one whose value depends on the host id, and one
\* that raises.
Logics == {"none", "det", "nondet", "raises"}

\* A stage context is a dict.  keys is the set of keys it holds; the other
\* fields are the values the executors read.  amount_none says the value
\* under "amount" is None, shadow_det is context["shadow_result"]
\* ["is_deterministic"], release_c is the canary result's release_amount in
\* hundredths (amount * canary_percentage with canary_percentage = 0.01).
InitKeys ==
    {"operator_id", "target_fixed_point", "parameters", "transaction_type",
     "amount", "canary_percentage"}

NoStageExecution == [status |-> "absent", error |-> None]

\* The keyword arguments a caller of execute_stage may pass (context.update).
NoKwargs == [keys |-> {}, logic |-> "none", shadow_det |-> FALSE]

Kwargs ==
    {NoKwargs}
    \cup {[keys |-> {"execution_logic"}, logic |-> l, shadow_det |-> FALSE] :
            l \in {"det", "nondet"}}
    \cup {[keys |-> {"shadow_result"}, logic |-> "none", shadow_det |-> d] :
            d \in BOOLEAN}
    \cup {[keys |-> {"did", "bio_hash"}, logic |-> "none", shadow_det |-> FALSE]}

update(context, kw) ==
    [context EXCEPT
        !.keys = @ \cup kw.keys,
        !.logic = IF "execution_logic" \in kw.keys THEN kw.logic ELSE @,
        !.shadow_det = IF "shadow_result" \in kw.keys THEN kw.shadow_det ELSE @]

\* GateExecution.get_stage_status
get_stage_status(execution, stage) ==
    IF execution.stages[stage].status = "absent"
    THEN "pending"
    ELSE execution.stages[stage].status

\* GateExecution.is_complete
is_complete(execution) ==
    LET required_stages ==
            <<"registration", "shadowing", "challenge_window",
              "canary_rollout", "final_permit">>
    IN  \A i \in DOMAIN required_stages :
            get_stage_status(execution, required_stages[i]) = "completed"

\* <Stage>Executor.validate: "ok", "fail" with the reason, or "raise".
validate(stage, context) ==
    CASE stage = "registration" ->
           IF {"operator_id", "parameters", "target_fixed_point"} \subseteq context.keys
           THEN [v |-> "ok", error |-> None]
           ELSE [v |-> "fail", error |-> "Missing required field"]
      [] stage = "shadowing" ->
           IF "execution_logic" \in context.keys
           THEN [v |-> "ok", error |-> None]
           ELSE [v |-> "fail", error |-> "Missing execution logic for shadowing"]
      [] stage = "challenge_window" ->
           IF "shadow_result" \in context.keys
           THEN [v |-> "ok", error |-> None]
           ELSE [v |-> "fail", error |-> "Missing shadow execution result"]
      [] stage = "canary_rollout" ->
           IF "amount" \notin context.keys
           THEN [v |-> "fail", error |-> "Invalid or missing amount for canary release"]
           ELSE IF context.amount_none
           THEN [v |-> "raise", error |-> None]      \* None <= 0: TypeError
           ELSE IF context.amount <= 0
           THEN [v |-> "fail", error |-> "Invalid or missing amount for canary release"]
           ELSE [v |-> "ok", error |-> None]
      [] OTHER ->
           IF {"did", "bio_hash", "operator_id"} \subseteq context.keys
           THEN [v |-> "ok", error |-> None]
           ELSE [v |-> "fail", error |-> "Missing required field"]

\* What execution_logic does on one host: it returns a dict, given as the
\* list of its items in insertion order, or it raises.
HostOutput(raises, items) == [raises |-> raises, items |-> items]

HostOutputs ==
    {HostOutput(FALSE, << <<"a", "1">>, <<"b", "2">> >>),
     HostOutput(FALSE, << <<"b", "2">>, <<"a", "1">> >>),
     HostOutput(FALSE, << <<"a", "1">>, <<"b", "3">> >>),
     HostOutput(FALSE, << <<"a", "1">> >>),
     HostOutput(TRUE, <<>>)}

\* The keys of the results above in sorted order.
ResultKeyOrder == <<"a", "b">>

\* json.dumps(result) without sort_keys: the items in insertion order.
RECURSIVE dumps_unsorted_from(_, _)
dumps_unsorted_from(items, i) ==
    IF i > Len(items) THEN ""
    ELSE "\"" \o items[i][1] \o "\": " \o items[i][2] \o ", "
             \o dumps_unsorted_from(items, i + 1)

\* json.dumps(result, sort_keys=True) from the i-th key of the order on.
RECURSIVE dumps_sorted_from(_, _)
dumps_sorted_from(items, i) ==
    IF i > Len(ResultKeyOrder) THEN ""
    ELSE LET here == {j \in DOMAIN items : items[j][1] = ResultKeyOrder[i]}
         IN  (IF here = {} THEN ""
              ELSE LET j == CHOOSE j \in here : TRUE
                   IN  "\"" \o items[j][1] \o "\": " \o items[j][2] \o ", ")
                 \o dumps_sorted_from(items, i + 1)

\* A faulty variant of verify_determinism, which C26 is tested against: the
\* results are serialized without sort_keys.
verify_determinism_unsorted(results) ==
    IF results = <<>> THEN FALSE
    ELSE \A i \in DOMAIN results :
             dumps_unsorted_from(results[i], 1)
                 = dumps_unsorted_from(results[1], 1)

\* ShadowExecution.verify_determinism; results holds the hosts' results in
\* host order.
verify_determinism(results) ==
    IF results = <<>> THEN FALSE
    ELSE LET first_result == "{" \o dumps_sorted_from(results[1], 1) \o "}"
         IN  \A i \in DOMAIN results :
                 "{" \o dumps_sorted_from(results[i], 1) \o "}" = first_result

\* ShadowingExecutor(num_hosts).execute with an execution_logic that does
\* outputs[i] on the i-th host: "true", "false" or "raise".
shadowing_execute(num_hosts, outputs) ==
    IF \E i \in 1..num_hosts : outputs[i].raises
    THEN "raise"
    ELSE IF verify_determinism([i \in 1..num_hosts |-> outputs[i].items])
    THEN "true"
    ELSE "false"

\* The named execution_logic arguments as host outputs: "det" returns the
\* same dict on every host, "nondet" one that holds the host's number, None
\* is not callable and "raises" raises.
LogicOutputs(logic) ==
    [i \in 1..NumShadowHosts |->
        CASE logic = "det" -> HostOutput(FALSE, << <<"a", "1">>, <<"b", "2">> >>)
          [] logic = "nondet" ->
               HostOutput(FALSE, << <<"a", "1">>, <<"b", ToString(i)>> >>)
          [] OTHER -> HostOutput(TRUE, <<>>)]

\* RegistrationExecutor.execute: hashlib.sha3_256 is handed the str
\* intent_data + operator_id, unencoded, which raises TypeError on every call.
RegistrationExecute(context) == "raise"

\* ShadowingExecutor.execute
ShadowingExecute(context) ==
    shadowing_execute(NumShadowHosts, LogicOutputs(context.logic))

\* ChallengeExecutor.execute
ChallengeExecute(context) ==
    IF context.shadow_det THEN "true" ELSE "false"

\* CanaryExecutor.execute: the simulated metrics are constants, is_stable is
\* always true.
CanaryExecute(context) == "true"

\* FinalPermitExecutor.execute
FinalPermitExecute(context) == "true"

execute(stage, context) ==
    CASE stage = "registration" -> RegistrationExecute(context)
      [] stage = "shadowing" -> ShadowingExecute(context)
      [] stage = "challenge_window" -> ChallengeExecute(context)
      [] stage = "canary_rollout" -> CanaryExecute(context)
      [] OTHER -> FinalPermitExecute(context)

\* The key execute_stage stores a stage's result under.
ResultKey(stage) ==
    CASE stage = "registration" -> "registration_result"
      [] stage = "shadowing" -> "shadowing_result"
      [] stage = "challenge_window" -> "challenge_window_result"
      [] stage = "canary_rollout" -> "canary_rollout_result"
      [] OTHER -> "final_permit_result"

\* A faulty variant of initiate_gate, which C24 is tested against: the canary
\* share of the amount counts as released from the start.
initiate_gate_released(amount_none, amount) ==
    [stages |-> [s \in GateStage |-> NoStageExecution],
     context |-> [keys |-> InitKeys, amount_none |-> amount_none,
                  amount |-> amount, logic |-> "none", shadow_det |-> FALSE,
                  release_c |-> 0],
     intent_hash |-> "",
     is_approved |-> FALSE,
     completed |-> FALSE,
     liquidity_released_c |-> amount * CanaryPercent]

\* InevitabilityGate.initiate_gate: the new execution record.
initiate_gate(amount_none, amount) ==
    [stages |-> [s \in GateStage |-> NoStageExecution],
     context |-> [keys |-> InitKeys, amount_none |-> amount_none,
                  amount |-> amount, logic |-> "none", shadow_det |-> FALSE,
                  release_c |-> 0],
     intent_hash |-> "",
     is_approved |-> FALSE,
     completed |-> FALSE,
     liquidity_released_c |-> 0]

\* InevitabilityGate.execute_stage on a known execution: the execution
\* afterwards and what the call returned ("true", "false") or "raise".
execute_stage(execution, stage, kw) ==
    LET context == update(execution.context, kw)
        val == validate(stage, context)
    IN  IF val.v = "raise"
        THEN [execution |-> execution, ret |-> "raise"]
        ELSE IF val.v = "fail"
        THEN [execution |->
                [execution EXCEPT
                    !.stages[stage] = [status |-> "failed", error |-> val.error]],
              ret |-> "false"]
        ELSE LET success == execute(stage, context)
             IN  IF success = "raise"
                 THEN [execution |-> execution, ret |-> "raise"]
                 ELSE IF success = "true"
                 THEN [execution |->
                         [execution EXCEPT
                             !.stages[stage] = [status |-> "completed", error |-> None],
                             !.context =
                                 [context EXCEPT
                                     !.keys = @ \cup {ResultKey(stage)},
                                     !.release_c =
                                         IF stage = "canary_rollout"
                                         THEN context.amount * CanaryPercent
                                         ELSE @]],
                       ret |-> "true"]
                 ELSE [execution |->
                         [execution EXCEPT
                             !.stages[stage] = [status |-> "failed", error |-> None]],
                       ret |-> "false"]

\* The loop of execute_full_gate from stage number i on: the execution
\* afterwards, what the call returned, and the stages it called
\* execute_stage for.
RECURSIVE RunStages(_, _, _)
RunStages(execution, i, attempts) ==
    IF i > Len(GateStages)
    THEN [execution |->
            [execution EXCEPT
                !.is_approved = TRUE,
                !.completed = TRUE,
                !.liquidity_released_c =
                    IF "canary_rollout_result" \in execution.context.keys
                    THEN execution.context.release_c
                    ELSE 0],
          ret |-> "true", attempts |-> attempts]
    ELSE LET r == execute_stage(execution, GateStages[i], NoKwargs)
             att == Append(attempts, GateStages[i])
         IN  IF r.ret = "raise"
             THEN [execution |-> r.execution, ret |-> "raise", attempts |-> att]
             ELSE IF r.ret = "false"
             THEN [execution |-> [r.execution EXCEPT !.completed = TRUE],
                   ret |-> "false", attempts |-> att]
             ELSE RunStages(r.execution, i + 1, att)

\* InevitabilityGate.execute_full_gate
execute_full_gate(logic, amount_none, amount) ==
    LET e0 == initiate_gate(amount_none, amount)
        e1 == [e0 EXCEPT
                 !.context.keys = @ \cup {"did", "bio_hash", "execution_logic"},
                 !.context.logic = logic]
    IN  RunStages(e1, 1, <<>>)

-----------------------------------------------------------------------------
(* C=0 proof chain: proof_chain.py *)

\* hashlib.sha3_256(data.encode()).hexdigest() and its sha3_512 sibling.
Sha3_256(data) == "sha3_256(" \o data \o ")"

Sha3_512(data) == "sha3_512(" \o data \o ")"

\* The dict keys of the model in the order json.dumps(sort_keys=True) writes
\* them.
KeyOrder ==
    <<"amount", "executed", "execution_record", "input_hash", "operation_hash",
      "operation_type", "source", "status", "target", "timestamp">>

RECURSIVE DumpItems(_, _)
DumpItems(d, i) ==
    IF i > Len(KeyOrder) THEN ""
    ELSE (IF KeyOrder[i] \in DOMAIN d
          THEN KeyOrder[i] \o ":" \o d[KeyOrder[i]] \o ","
          ELSE "")
         \o DumpItems(d, i + 1)

\* json.dumps(d, sort_keys=True) of a dict of scalars: one text per dict,
\* whatever order its keys were inserted in.
dumps(d) == "{" \o DumpItems(d, 1) \o "}"

GenesisHash ==
    "0000000000000000000000000000000000000000000000000000000000000000"

ProofTypes == <<"input", "operation", "verification", "output", "signature">>

\* A faulty variant of previous_hashes, which C6 is tested against: the
\* assignment previous_hash = operation_hash is missing.
previous_hashes_stale(input_hash, operation_hash, verification_hash, output_hash) ==
    <<GenesisHash, input_hash, input_hash, verification_hash, output_hash>>

\* The value of the local previous_hash of create_proof_chain when each of
\* the five steps is built: the genesis hash, then the hash of the step just
\* appended.
previous_hashes(input_hash, operation_hash, verification_hash, output_hash) ==
    <<GenesisHash, input_hash, operation_hash, verification_hash, output_hash>>

\* ProofChainGenerator.create_proof_chain without an execution record: the
\* five steps.
create_proof_chain(operation_type, inputs, outputs, operator_id) ==
    LET input_hash == Sha3_256(dumps(inputs))
        operation_hash ==
            Sha3_256(dumps([operation_type |-> operation_type,
                            input_hash |-> input_hash]))
        verification_hash ==
            Sha3_256(dumps([input_hash |-> input_hash,
                            operation_hash |-> operation_hash,
                            execution_record |-> "{}"]))
        output_hash == Sha3_256(dumps(outputs))
        previous_hash ==
            previous_hashes(input_hash, operation_hash, verification_hash,
                            output_hash)
        signature_hash == Sha3_512(previous_hash[5] \o operator_id)
    IN  << [proof_type |-> ProofTypes[1],
            data |-> [inputs |-> dumps(inputs)],
            hash_value |-> input_hash,
            previous_hash |-> previous_hash[1]],
           [proof_type |-> ProofTypes[2],
            data |-> [operation_type |-> operation_type],
            hash_value |-> operation_hash,
            previous_hash |-> previous_hash[2]],
           [proof_type |-> ProofTypes[3],
            data |-> [is_deterministic |-> TRUE, entropy_measure |-> 0],
            hash_value |-> verification_hash,
            previous_hash |-> previous_hash[3]],
           [proof_type |-> ProofTypes[4],
            data |-> [outputs |-> dumps(outputs)],
            hash_value |-> output_hash,
            previous_hash |-> previous_hash[4]],
           [proof_type |-> ProofTypes[5],
            data |-> [operator_id |-> operator_id],
            hash_value |-> signature_hash,
            previous_hash |-> previous_hash[5]] >>

\* next((s for s in chain if s.proof_type == t), None): the position of the
\* first step of type t, 0 when there is none.
FirstOfType(chain, t) ==
    IF \E i \in DOMAIN chain : chain[i].proof_type = t
    THEN CHOOSE i \in DOMAIN chain :
            /\ chain[i].proof_type = t
            /\ \A j \in 1..(i - 1) : chain[j].proof_type # t
    ELSE 0

\* chain[-2].hash_value, which generate_receipt records as the operation hash.
ReceiptOperationHash(chain) == chain[Len(chain) - 1].hash_value

\* ProofChainGenerator.generate_receipt (chains here have five steps).
generate_receipt(chain, inputs, outputs) ==
    LET v == FirstOfType(chain, "verification")
        entropy_measure ==
            IF v = 0 THEN 0
            ELSE IF "entropy_measure" \in DOMAIN chain[v].data
            THEN chain[v].data.entropy_measure
            ELSE 0
    IN  [operation_hash |-> ReceiptOperationHash(chain),
         input_hash |-> Sha3_256(dumps(inputs)),
         output_hash |-> Sha3_256(dumps(outputs)),
         proof_chain |-> [i \in DOMAIN chain |-> chain[i].hash_value],
         entropy_measure |-> entropy_measure,
         is_deterministic |-> (entropy_measure = 0)]

\* C0Verifier._verify_chain_integrity
verify_chain_integrity(chain) ==
    \A i \in DOMAIN chain :
        i > 1 => chain[i].previous_hash = chain[i - 1].hash_value

\* C0Verifier._verify_receipt
verify_receipt(chain, receipt) ==
    LET o == FirstOfType(chain, "operation")
    IN  /\ o # 0
        /\ receipt.operation_hash = chain[o].hash_value
        /\ receipt.proof_chain = [i \in DOMAIN chain |-> chain[i].hash_value]

\* C0Verifier.verify_proof_chain: the status it returns; the boolean it
\* returns beside it is status = "valid".
verify_proof_chain(chain, receipt) ==
    LET is_valid_chain == verify_chain_integrity(chain)
        is_valid_receipt == verify_receipt(chain, receipt)
        is_deterministic ==
            receipt.is_deterministic /\ receipt.entropy_measure = 0
    IN  IF is_valid_chain /\ is_valid_receipt /\ is_deterministic
        THEN "valid"
        ELSE "invalid"

-----------------------------------------------------------------------------
(* Identity: bio_hash.py, as far as the orchestrator uses it *)

Operators == {"alice", "bob"}

\* A trajectory is named by its content; "" is the empty list.
Trajectories == {"", "t1"}

\* hexdigest()[:n], taken to be collision-free like the digest itself.
Prefix(h, n) == ToString(n) \o "[" \o h \o "]"

\* TrajectoryProcessor.compute_trajectory_hash
compute_trajectory_hash(trajectory) == Sha3_256(trajectory)

\* BioHashGenerator.generate_bio_hash with the salt it drew (salt is None in
\* every call of the repository, so each call draws a fresh one).
generate_bio_hash(trajectory, operator_id, salt) ==
    Sha3_512(compute_trajectory_hash(trajectory) \o operator_id
             \o "salt" \o ToString(salt) \o "lattice(" \o trajectory \o ")")

\* A digest of this model (see the conventions), as against a string given
\* character by character.
IsDigest(s) == Len(s) >= 5 /\ SubSeq(s, 1, 5) = "sha3_"

\* s[:n]: of a digest its first n hex digits, of any other string its first
\* n characters (all of it when it is shorter).
FirstChars(s, n) ==
    IF IsDigest(s) THEN Prefix(s, n) ELSE SubSeq(s, 1, Min(n, Len(s)))

\* A faulty variant of generate_did, which C15 is tested against: the
\* operator id is left out of the identifier.
generate_did_without_operator(bio_hash, operator_id) ==
    "did:axiom:" \o Prefix(Sha3_256(FirstChars(bio_hash, 32)), 24)

\* DIDGenerator.generate_did
generate_did(bio_hash, operator_id) ==
    "did:axiom:"
        \o Prefix(Sha3_256(FirstChars(bio_hash, 32)
                           \o FirstChars(operator_id, 16)), 24)

\* A DID with a character outside ASCII, which hmac.compare_digest does not
\* take as a str.
NonAsciiDid == "did:axiom:(non-ASCII)"

\* DIDGenerator.verify_did: "true", "false", or "raise" (TypeError).
verify_did(did, expected_bio_hash, operator_id) ==
    LET expected_did == generate_did(expected_bio_hash, operator_id)
    IN  IF did = NonAsciiDid THEN "raise"
        ELSE IF did = expected_did THEN "true"
        ELSE "false"

NoIdentity == [bio_hash |-> None, trajectory_hash |-> None, did |-> None]

\* HDIdentitySystem.register_identity on a non-empty trajectory: the receipt.
register_identity(trajectory, operator_id, salt) ==
    LET bio_hash == generate_bio_hash(trajectory, operator_id, salt)
    IN  [bio_hash |-> bio_hash,
         trajectory_hash |-> compute_trajectory_hash(trajectory),
         did |-> generate_did(bio_hash, operator_id)]

\* A faulty variant of stored_identities, which C33 is tested against: the
\* identity is stored before the trajectory is looked at.
stored_identities_unchecked(ids, trajectory, operator_id, salt) ==
    [ids EXCEPT ![operator_id] = register_identity(trajectory, operator_id, salt)]

\* HDIdentitySystem._identities after register_identity, whether it returned
\* or raised: on an empty trajectory generate_bio_hash raises ValueError
\* (process_trajectory) before a salt is drawn or a record stored.
stored_identities(ids, trajectory, operator_id, salt) ==
    IF trajectory = ""
    THEN ids
    ELSE [ids EXCEPT ![operator_id] = register_identity(trajectory, operator_id, salt)]

-----------------------------------------------------------------------------
(* Receipt integrity: proof_chain.py *)

\* "".join(proof_chain) from the i-th hash on.
RECURSIVE JoinFrom(_, _)
JoinFrom(proof_chain, i) ==
    IF i > Len(proof_chain) THEN ""
    ELSE proof_chain[i] \o JoinFrom(proof_chain, i + 1)

\* DeterministicReceipt.verify: the stored operation hash, a full digest, is
\* compared with the first 32 hex digits of the digest of the joined hashes.
receipt_verify(receipt) ==
    LET chain_data == JoinFrom(receipt.proof_chain, 1)
        expected_hash == Prefix(Sha3_256(chain_data), 32)
    IN  receipt.operation_hash = expected_hash /\ receipt.is_deterministic

\* C0Verifier.verify_c0_claim: the boolean and the explanation.
verify_c0_claim(receipt) ==
    IF ~receipt.is_deterministic
    THEN [is_c0 |-> FALSE, explanation |-> "Operation is non-deterministic"]
    ELSE IF receipt.entropy_measure > 0
    THEN [is_c0 |-> FALSE, explanation |->
            "Entropy measure is " \o ToString(receipt.entropy_measure)
                \o ", expected 0 for C=0"]
    ELSE IF receipt.entropy_measure < 0
    THEN [is_c0 |-> FALSE, explanation |-> "Invalid entropy measure (negative)"]
    ELSE IF ~receipt_verify(receipt)
    THEN [is_c0 |-> FALSE, explanation |-> "Receipt integrity check failed"]
    ELSE [is_c0 |-> TRUE, explanation |-> "C=0 verified - Zero Entropy confirmed"]

-----------------------------------------------------------------------------
(* Orchestrator: core.py *)

Balances == {0, 5000}

Amounts == {100, 3000}

\* SovereignShield.DEFAULT_THRESHOLDS, in the order of the list.  Values are
\* in hundredths, so that 0.5 is 50 and 5 is 500.
ThresholdIds ==
    <<"entropy_threshold", "violation_threshold", "latency_threshold",
      "failure_threshold", "liquidity_threshold">>

DEFAULT_THRESHOLDS ==
    [t \in Range(ThresholdIds) |->
        CASE t = "entropy_threshold" ->
               [metric_name |-> "system_entropy", critical_value |-> 50,
                warning_value |-> 30, current_value |-> 0, is_triggered |-> FALSE]
          [] t = "violation_threshold" ->
               [metric_name |-> "identity_violations", critical_value |-> 500,
                warning_value |-> 200, current_value |-> 0, is_triggered |-> FALSE]
          [] t = "latency_threshold" ->
               [metric_name |-> "execution_latency_ms", critical_value |-> 500000,
                warning_value |-> 200000, current_value |-> 0, is_triggered |-> FALSE]
          [] t = "failure_threshold" ->
               [metric_name |-> "operation_failure_rate", critical_value |-> 10,
                warning_value |-> 5, current_value |-> 0, is_triggered |-> FALSE]
          [] OTHER ->
               [metric_name |-> "liquidity_ratio", critical_value |-> 20,
                warning_value |-> 30, current_value |-> 0, is_triggered |-> FALSE]]

\* A faulty variant of can_transact, which C4 is tested against: the balance
\* is not looked at.
can_transact_any_amount(node, amount) ==
    node.status = "protected"

\* A faulty variant of can_transact, which C11 is tested against: the status
\* is not looked at.
can_transact_any_status(node, amount) ==
    node.balance - node.frozen_balance >= amount

\* WealthNode.can_transact
can_transact(node, amount) ==
    LET available == node.balance - node.frozen_balance
    IN  node.status = "protected" /\ available >= amount

\* CollapseThreshold.check: the threshold afterwards; it returns is_triggered.
check(threshold, value) ==
    [threshold EXCEPT !.current_value = value,
                      !.is_triggered = (value >= threshold.critical_value)]

\* CollapseThreshold.is_warning
is_warning(threshold, value) ==
    value >= threshold.warning_value /\ value < threshold.critical_value

RECURSIVE SumBalances(_)
SumBalances(ns) ==
    IF ns = <<>> THEN 0 ELSE Head(ns).balance + SumBalances(Tail(ns))

\* A faulty variant of update_metrics, which C36 is tested against: every
\* node counts as protected.
update_metrics_any_status(m, ns) ==
    LET total == Len(ns)
        tvl == SumBalances(ns)
    IN  [m EXCEPT
            !.total_nodes = total,
            !.protected_nodes = total,
            !.exposed_nodes = 0,
            !.total_value_locked = tvl,
            !.hrl_num = IF total > 0 THEN total * Min(1000000, tvl) ELSE @,
            !.hrl_den = IF total > 0 THEN total * 1000000 ELSE @]

\* SovereignShield._update_metrics.  The float hrl_score is kept as the
\* fraction hrl_num / hrl_den.
update_metrics(m, ns) ==
    LET total == Len(ns)
        protected == Cardinality({i \in DOMAIN ns : ns[i].status = "protected"})
        exposed == Cardinality({i \in DOMAIN ns : ns[i].status = "exposed"})
        tvl == SumBalances(ns)
    IN  [m EXCEPT
            !.total_nodes = total,
            !.protected_nodes = protected,
            !.exposed_nodes = exposed,
            !.total_value_locked = tvl,
            !.hrl_num = IF total > 0 THEN protected * Min(1000000, tvl) ELSE @,
            !.hrl_den = IF total > 0 THEN total * 1000000 ELSE @]

\* A faulty variant of quarantine, which C34 is tested against: the
\* node's balance is taken away with its status.
quarantine_confiscating(ns, node_id) ==
    [ns EXCEPT ![node_id].status = "quarantined", ![node_id].balance = 0]

\* node.status = NodeStatus.QUARANTINED in detect_identity_violation
quarantine(ns, node_id) ==
    [ns EXCEPT ![node_id].status = "quarantined"]

\* Lines 376-420 of initiate_capital_flow, after the checks passed: the
\* registries afterwards and what the call returned.
flow_rest(ns, fl, ex, ch, m, source, target, amount, logic) ==
    LET flow == [source_node_id |-> source, target_node_id |-> target,
                 amount |-> amount, status |-> "pending",
                 gate_execution_id |-> 0, receipt |-> <<>>,
                 executed |-> FALSE]
        g == execute_full_gate(logic, FALSE, amount)
        execution_id == Len(ex) + 1
        ex1 == Append(ex, g.execution)
    IN  IF g.ret = "raise"
        THEN [nodes |-> ns, flows |-> Append(fl, flow), executions |-> ex1,
              chains |-> ch, metrics |-> m, outcome |-> "raise", id |-> 0]
        ELSE IF g.ret = "false"
        THEN [nodes |-> ns,
              flows |-> Append(fl, [flow EXCEPT
                                      !.gate_execution_id = execution_id,
                                      !.status = "rejected"]),
              executions |-> ex1, chains |-> ch,
              metrics |-> update_metrics(m, ns),
              outcome |-> "false", id |-> 0]
        ELSE LET debited == [ns EXCEPT ![source].balance = @ - amount]
                 credited == [debited EXCEPT ![target].balance = @ + amount]
                 chain ==
                     create_proof_chain(
                         "CAPITAL_TRANSFER",
                         [source |-> ToString(source), target |-> ToString(target),
                          amount |-> ToString(amount)],
                         [executed |-> "true", timestamp |-> "executed_at"],
                         ns[source].operator_id)
                 receipt ==
                     generate_receipt(chain, [amount |-> ToString(amount)],
                                      [status |-> "executed"])
             IN  [nodes |-> credited,
                  flows |-> Append(fl, [flow EXCEPT
                                          !.gate_execution_id = execution_id,
                                          !.status = "executed",
                                          !.executed = TRUE,
                                          !.receipt = <<receipt>>]),
                  executions |-> ex1,
                  chains |-> Append(ch, [steps |-> chain, built |-> chain]),
                  metrics |-> update_metrics(m, credited),
                  outcome |-> "true", id |-> execution_id]

\* Lines 365-374 of initiate_capital_flow: both nodes exist and the source
\* can transact.
flow_checks(ns, source, target, amount) ==
    /\ source \in DOMAIN ns
    /\ target \in DOMAIN ns
    /\ can_transact(ns[source], amount)

\* SovereignShield.check_collapse_thresholds from the i-th threshold on:
\* the thresholds afterwards and the list of triggered ids.
RECURSIVE check_from(_, _, _, _)
check_from(ths, m, i, triggered) ==
    IF i > Len(ThresholdIds)
    THEN [thresholds |-> ths, triggered |-> triggered]
    ELSE LET threshold_id == ThresholdIds[i]
         IN  IF threshold_id \in DOMAIN m
             THEN LET t == check(ths[threshold_id], m[threshold_id])
                  IN  check_from([ths EXCEPT ![threshold_id] = t], m, i + 1,
                                 IF t.is_triggered
                                 THEN Append(triggered, threshold_id)
                                 ELSE triggered)
             ELSE check_from(ths, m, i + 1, triggered)

-----------------------------------------------------------------------------
(* BARK: bark.py *)

\* A float: the fraction n / d with d > 0, or NaN.  Vectors are sequences of
\* at most one float, so that numpy's norm is the absolute value.
Num(n, d) == [n |-> n, d |-> d, nan |-> FALSE]

NaN == [n |-> 0, d |-> 1, nan |-> TRUE]

\* a < b and a > b on floats: both are false when either side is NaN.
Lt(a, b) == ~a.nan /\ ~b.nan /\ a.n * b.d < b.n * a.d

Gt(a, b) == Lt(b, a)

\* np.linalg.norm(np.array(v) - np.array(w)) for vectors of equal length;
\* inf - inf and anything with NaN give NaN.
NormOfDifference(v, w) ==
    IF v = <<>> THEN Num(0, 1)
    ELSE IF v[1].nan \/ w[1].nan THEN NaN
    ELSE LET n == v[1].n * w[1].d - w[1].n * v[1].d
         IN  Num(IF n < 0 THEN -n ELSE n, v[1].d * w[1].d)

\* The system functions of the model, applied to z (none reads the input
\* vector x): z / 2, z, 2 z, and z + 1 in every coordinate.
SystemFunctions == {"half", "identity", "double", "shift"}

\* A faulty variant of Apply, which C19 is tested against: every system
\* function doubles z.
ApplyDouble(system_function, z) ==
    [i \in DOMAIN z |-> IF z[i].nan THEN NaN ELSE Num(z[i].n * 2, z[i].d)]

Apply(system_function, z) ==
    [i \in DOMAIN z |->
        IF z[i].nan THEN NaN
        ELSE CASE system_function = "half" -> Num(z[i].n, z[i].d * 2)
               [] system_function = "double" -> Num(z[i].n * 2, z[i].d)
               [] system_function = "shift" -> Num(z[i].n + z[i].d, z[i].d)
               [] OTHER -> z[i]]

\* The loop of FixedPointConvergence.compute_fixed_point after `iteration`
\* passes, with z and delta as the last pass left them.  applications counts
\* the calls of system_function.  When the loop body never ran, the return
\* statement after the loop reads the unbound local delta: UnboundLocalError.
RECURSIVE Iterate(_, _, _, _, _, _, _)
Iterate(z, delta, iteration, system_function, max_iterations, tolerance, divergence_threshold) ==
    IF iteration >= max_iterations
    THEN IF iteration = 0
         THEN [outcome |-> "raise", current_iteration |-> 0, delta |-> delta,
               is_converged |-> FALSE, has_fixed_point |-> FALSE,
               fixed_point |-> <<>>, applications |-> 0]
         ELSE [outcome |-> "ok", current_iteration |-> max_iterations,
               delta |-> delta, is_converged |-> FALSE,
               has_fixed_point |-> TRUE, fixed_point |-> z,
               applications |-> iteration]
    ELSE LET z_next == Apply(system_function, z)
             d == NormOfDifference(z_next, z)
         IN  IF Lt(d, tolerance)
             THEN [outcome |-> "ok", current_iteration |-> iteration + 1,
                   delta |-> d, is_converged |-> TRUE,
                   has_fixed_point |-> TRUE, fixed_point |-> z_next,
                   applications |-> iteration + 1]
             ELSE IF Gt(d, divergence_threshold)
             THEN [outcome |-> "ok", current_iteration |-> iteration + 1,
                   delta |-> d, is_converged |-> FALSE,
                   has_fixed_point |-> FALSE, fixed_point |-> <<>>,
                   applications |-> iteration + 1]
             ELSE IF d.nan
             THEN \* NaN stays NaN: every later pass compares the same NaN, and
                  \* the loop runs to its end.
                  [outcome |-> "ok", current_iteration |-> max_iterations,
                   delta |-> d, is_converged |-> FALSE,
                   has_fixed_point |-> TRUE, fixed_point |-> z_next,
                   applications |-> max_iterations]
             ELSE Iterate(z_next, d, iteration + 1, system_function,
                          max_iterations, tolerance, divergence_threshold)

\* FixedPointConvergence.compute_fixed_point of a validator constructed with
\* max_iterations, tolerance and divergence_threshold.
compute_fixed_point(operator_vector, system_function, max_iterations, tolerance, divergence_threshold) ==
    Iterate(operator_vector, NaN, 0, system_function, max_iterations,
            tolerance, divergence_threshold)

\* BARKValidator.__init__ defaults.  The tolerance of the code is 1e-10,
\* whose denominator is beyond TLC's integers; the shield compares only the
\* deltas 0 and NaN with it, which 1e-9 decides alike.
DefaultMaxIterations == 1000

DefaultTolerance == Num(1, 1000000000)

DefaultDivergenceThreshold == Num(1000000, 1)

\* AxiomValidator.DEFAULT_AXIOMS: name -> statement.
DEFAULT_AXIOMS ==
    [name \in {"I_AM_THE_WEAPON", "SOVEREIGNTY", "DETERMINISM", "INTEGRITY",
               "CONTINUOUS_AUDIT"} |->
        CASE name = "I_AM_THE_WEAPON" -> "I AM: THE WEAPON"
          [] name = "SOVEREIGNTY" -> "SOVEREIGNTY IS NON-NEGOTIABLE"
          [] name = "DETERMINISM" -> "TRUTH IS DETERMINISTIC"
          [] name = "INTEGRITY" -> "INTEGRITY IS ABSOLUTE"
          [] OTHER -> "AUDIT IS CONTINUOUS"]

\* A statement with a character outside ASCII; hmac.compare_digest raises
\* TypeError when it is given such a str.
NonAsciiStatement == "I AM: THE WEAPON (non-ASCII)"

IsAscii(statement) == statement # NonAsciiStatement

\* AxiomValidator.validate_axiom: "valid", "invalid", or "raise" (ValueError
\* for a name that is not in the registry, TypeError from Axiom.verify).
validate_axiom(statement, axiom_name) ==
    IF axiom_name \notin DOMAIN DEFAULT_AXIOMS THEN "raise"
    ELSE IF ~IsAscii(statement) THEN "raise"
    ELSE IF DEFAULT_AXIOMS[axiom_name] = statement THEN "valid"
    ELSE "invalid"

\* AxiomValidator.validate_all_axioms: it raises when one of its
\* validate_axiom calls does; otherwise the result of each statement.
validate_all_axioms(statements) ==
    IF \E name \in DOMAIN statements :
           validate_axiom(statements[name], name) = "raise"
    THEN [outcome |-> "raise", results |-> <<>>]
    ELSE [outcome |-> "ok",
          results |-> [name \in DOMAIN statements |->
                          validate_axiom(statements[name], name)]]

NoViolation ==
    [found |-> FALSE, axioms |-> {}, non_convergence |-> FALSE,
     potential_divergence |-> FALSE, severity |-> None]

\* IdentityViolationDetector.detect_violation on the results of
\* validate_all_axioms: the violation it returns (found = FALSE for None).
\* The description is kept as its three parts.
detect_violation(results, convergence_state) ==
    LET axioms == {name \in DOMAIN results : results[name] = "invalid"}
        non_convergence == ~convergence_state.is_converged
        potential_divergence ==
            Gt(convergence_state.delta,
               Num(DefaultDivergenceThreshold.n,
                   DefaultDivergenceThreshold.d * 10))
    IN  IF axioms # {} \/ non_convergence \/ potential_divergence
        THEN [found |-> TRUE, axioms |-> axioms,
              non_convergence |-> non_convergence,
              potential_divergence |-> potential_divergence,
              severity |-> IF non_convergence THEN "CRITICAL" ELSE "HIGH"]
        ELSE NoViolation

\* BARKValidator.validate_identity: the histories afterwards and what the
\* call returned.  An exception leaves validate_all_axioms before either
\* history is appended to.
validate_identity(b, operator_id, trajectory, system_function, statements) ==
    LET convergence_state ==
            compute_fixed_point(trajectory, system_function,
                                DefaultMaxIterations, DefaultTolerance,
                                DefaultDivergenceThreshold)
        validated == validate_all_axioms(statements)
        violation == detect_violation(validated.results, convergence_state)
        is_valid ==
            /\ convergence_state.is_converged
            /\ ~violation.found
            /\ Lt(convergence_state.delta, DefaultTolerance)
    IN  IF validated.outcome = "raise"
        THEN [bark |-> b, outcome |-> "raise", is_valid |-> FALSE,
              violation |-> NoViolation]
        ELSE [bark |->
                [violation_history |->
                    IF violation.found
                    THEN Append(b.violation_history, violation)
                    ELSE b.violation_history,
                 validation_history |->
                    Append(b.validation_history,
                           [operator_id |-> operator_id, is_valid |-> is_valid,
                            violation |-> violation.found,
                            iterations |-> convergence_state.current_iteration,
                            is_converged |-> convergence_state.is_converged])],
              outcome |-> "ok", is_valid |-> is_valid,
              violation |-> violation]

-----------------------------------------------------------------------------
(* Chat engine: chatbot/engine.py, chatbot/knowledge.py *)

\* ChatEngine.SESSION_TTL, in seconds.
SESSION_TTL == 3600

\* The clock stops at this reading.
MaxTime == MaxTicks * (SESSION_TTL + 1)

\* `w` stands in `message` as a word: the pattern \b(w)\b on a message of
\* lower-case words separated by single spaces.
HasWord(message, w) ==
    \E i \in 1..(Len(message) - Len(w) + 1) :
        /\ SubSeq(message, i, i + Len(w) - 1) = w
        /\ i = 1 \/ SubSeq(message, i - 1, i - 1) = " "
        /\ \/ i + Len(w) - 1 = Len(message)
           \/ SubSeq(message, i + Len(w), i + Len(w)) = " "

\* INTENT_PATTERNS, in its order, cut down to the patterns and alternatives
\* that the words of the model's messages can match.
INTENT_PATTERNS ==
    << <<{"hello", "hi", "hey"}, "greeting">>,
       <<{"bye", "goodbye"}, "farewell">>,
       <<{"help"}, "help">>,
       <<{"biohash"}, "bio_hash">>,
       <<{"bark"}, "bark">> >>

\* The loop of classify_intent from the i-th pattern on.
RECURSIVE classify_from(_, _)
classify_from(message, i) ==
    IF i > Len(INTENT_PATTERNS) THEN "default"
    ELSE IF \E w \in INTENT_PATTERNS[i][1] : HasWord(message, w)
    THEN INTENT_PATTERNS[i][2]
    ELSE classify_from(message, i + 1)

\* knowledge.classify_intent
classify_intent(message) == classify_from(message, 1)

\* RESPONSES: intent -> response text (the texts are named, not quoted).
RESPONSES ==
    [intent \in {"greeting", "farewell", "help", "bio_hash", "bark", "default"}
        |-> "RESPONSES[" \o intent \o "]"]

\* knowledge.get_response
get_response(intent) ==
    IF intent \in DOMAIN RESPONSES THEN RESPONSES[intent]
    ELSE RESPONSES["default"]

\* The engine after __init__: no session.  Session ids are uuid4 strings;
\* here the k-th session created has id k, and 0 stands for None.  now is
\* the reading of time.time().
NoSessions == [sessions |-> [i \in {} |-> 0], created |-> 0, now |-> 0]

\* A faulty variant of is_expired, which C23 is tested against: no session
\* ever expires.
never_expired(session, now) == FALSE

\* now - session.last_active > self.SESSION_TTL
is_expired(session, now) == now - session.last_active > SESSION_TTL

Without(sessions, session_id) ==
    [i \in DOMAIN sessions \ {session_id} |-> sessions[i]]

\* ChatEngine.create_session: the engine afterwards and the new id.
create_session(e) ==
    LET session_id == e.created + 1
        session == [messages |-> <<>>, created_at |-> e.now,
                    last_active |-> e.now]
    IN  [engine |-> [e EXCEPT
                        !.sessions =
                            [i \in DOMAIN e.sessions \cup {session_id} |->
                                IF i = session_id THEN session
                                ELSE e.sessions[i]],
                        !.created = session_id],
         session_id |-> session_id]

\* ChatEngine.get_session: the engine afterwards and the id of the session
\* returned (0 for None).
get_session(e, session_id) ==
    IF session_id \notin DOMAIN e.sessions
    THEN [engine |-> e, session_id |-> 0]
    ELSE IF is_expired(e.sessions[session_id], e.now)
    THEN [engine |-> [e EXCEPT !.sessions = Without(@, session_id)],
          session_id |-> 0]
    ELSE [engine |-> e, session_id |-> session_id]

\* ChatEngine.get_or_create_session
get_or_create_session(e, session_id) ==
    IF session_id # 0
    THEN LET g == get_session(e, session_id)
         IN  IF g.session_id # 0 THEN g ELSE create_session(g.engine)
    ELSE create_session(e)

\* A faulty variant of add_message, which C21 is tested against: assistant
\* messages are dropped.
add_message_user_only(session, role, content, now) ==
    IF role = "user"
    THEN [session EXCEPT
            !.messages = Append(@, [role |-> role, content |-> content]),
            !.last_active = now]
    ELSE session

\* Session.add_message
add_message(session, role, content, now) ==
    [session EXCEPT
        !.messages = Append(@, [role |-> role, content |-> content]),
        !.last_active = now]

\* ChatEngine.chat: the engine afterwards and the dict returned.
chat(e, session_id, user_message) ==
    LET g == get_or_create_session(e, session_id)
        intent == classify_intent(user_message)
        response_text == get_response(intent)
        s1 == add_message(g.engine.sessions[g.session_id], "user",
                          user_message, e.now)
        s2 == add_message(s1, "assistant", response_text, e.now)
    IN  [engine |-> [g.engine EXCEPT !.sessions[g.session_id] = s2],
         session_id |-> g.session_id, response |-> response_text,
         intent |-> intent]

\* ChatEngine.get_history: the engine afterwards, whether a list was
\* returned, and the list.
get_history(e, session_id) ==
    LET g == get_session(e, session_id)
    IN  IF g.session_id = 0
        THEN [engine |-> g.engine, found |-> FALSE, messages |-> <<>>]
        ELSE [engine |-> g.engine, found |-> TRUE,
              messages |-> g.engine.sessions[session_id].messages]

\* A faulty variant of clear_session, which C22 is tested against: the
\* session is dropped from the registry.
clear_session_dropping(e, session_id) ==
    LET g == get_session(e, session_id)
    IN  IF g.session_id = 0
        THEN [engine |-> g.engine, cleared |-> FALSE]
        ELSE [engine |-> [g.engine EXCEPT !.sessions = Without(@, session_id)],
              cleared |-> TRUE]

\* ChatEngine.clear_session
clear_session(e, session_id) ==
    LET g == get_session(e, session_id)
    IN  IF g.session_id = 0
        THEN [engine |-> g.engine, cleared |-> FALSE]
        ELSE [engine |-> [g.engine EXCEPT
                            !.sessions[session_id].messages = <<>>],
              cleared |-> TRUE]

\* ChatEngine.purge_expired_sessions: the engine afterwards and the count.
purge_expired_sessions(e) ==
    LET expired == {sid \in DOMAIN e.sessions :
                        is_expired(e.sessions[sid], e.now)}
    IN  [engine |-> [e EXCEPT
                        !.sessions =
                            [i \in DOMAIN e.sessions \ expired |->
                                e.sessions[i]]],
         count |-> Cardinality(expired)]

-----------------------------------------------------------------------------
(* Initial state: a shield just constructed *)

Threads == 1..NumThreads

\* BARKValidator.__init__: both histories are empty.
NoBark == [violation_history |-> <<>>, validation_history |-> <<>>]

IdleThread ==
    [pc |-> "idle", source |-> 0, target |-> 0, amount |-> 0, logic |-> "none"]

Init ==
    /\ executions = <<>>
    /\ nodes = <<>>
    /\ identities = [o \in Operators |-> NoIdentity]
    /\ saltCounter = 0
    /\ flows = <<>>
    /\ thresholds = DEFAULT_THRESHOLDS
    /\ status = "active"
    /\ metrics = [total_nodes |-> 0, protected_nodes |-> 0, exposed_nodes |-> 0,
                  total_value_locked |-> 0, hrl_num |-> 1, hrl_den |-> 1,
                  collapse_thresholds_triggered |-> <<>>]
    /\ chains = <<>>
    /\ receipts = <<>>
    /\ verification_history = <<>>
    /\ threads = [t \in Threads |-> IdleThread]
    /\ bark = NoBark
    /\ engine = NoSessions
    /\ ret = NoRet

-----------------------------------------------------------------------------
(* Gate operations *)

GateAmounts == {0, 100}

\* The execution_logic arguments given to initiate_capital_flow: omitted, or
\* a deterministic callable.
FlowLogics == {"none", "det"}

\* InevitabilityGate.initiate_gate
GateInitiate(amount_none, amount) ==
    /\ Len(executions) < MaxExecutions
    /\ executions' = Append(executions, initiate_gate(amount_none, amount))
    /\ ret' = [op |-> "initiate_gate", outcome |-> "ok",
               id |-> Len(executions) + 1]
    /\ UNCHANGED <<nodes, identities, saltCounter, flows, thresholds, status,
                   metrics, chains, receipts, verification_history, threads,
                   bark,
                   engine>>

\* InevitabilityGate.execute_full_gate
GateExecuteFullGate(logic, amount_none, amount) ==
    /\ Len(executions) < MaxExecutions
    /\ LET g == execute_full_gate(logic, amount_none, amount)
       IN  /\ executions' = Append(executions, g.execution)
           /\ ret' = [op |-> "execute_full_gate", outcome |-> g.ret,
                      id |-> Len(executions) + 1, attempts |-> g.attempts]
    /\ UNCHANGED <<nodes, identities, saltCounter, flows, thresholds, status,
                   metrics, chains, receipts, verification_history, threads,
                   bark,
                   engine>>

\* ShadowingExecutor(num_hosts).execute, called on its own with an
\* execution_logic given by what it does on each host.
ShadowExecute(num_hosts, outputs) ==
    /\ ret' = [op |-> "shadowing_execute",
               outcome |-> shadowing_execute(num_hosts, outputs),
               num_hosts |-> num_hosts, outputs |-> outputs]
    /\ UNCHANGED <<executions, nodes, identities, saltCounter, flows,
                   thresholds, status, metrics, chains, receipts,
                   verification_history, threads, bark, engine>>

\* InevitabilityGate.execute_stage, called on its own (id 0 is an id the
\* registry does not hold: ValueError); bare says the call passed no keyword
\* arguments.
GateExecuteStage(id, stage, kw) ==
    /\ IF id \notin DOMAIN executions
       THEN /\ ret' = [op |-> "execute_stage", outcome |-> "raise",
                       id |-> id, stage |-> stage,
                       bare |-> kw = NoKwargs]
            /\ UNCHANGED executions
       ELSE LET r == execute_stage(executions[id], stage, kw)
            IN  /\ executions' = [executions EXCEPT ![id] = r.execution]
                /\ ret' = [op |-> "execute_stage", outcome |-> r.ret,
                           id |-> id, stage |-> stage,
                           bare |-> kw = NoKwargs]
    /\ UNCHANGED <<nodes, identities, saltCounter, flows, thresholds, status,
                   metrics, chains, receipts, verification_history, threads,
                   bark,
                   engine>>

-----------------------------------------------------------------------------
(* Orchestrator operations *)

\* SovereignShield.register_node
RegisterNode(operator_id, trajectory, initial_balance) ==
    /\ Len(nodes) < MaxNodes
    /\ IF trajectory = ""
       THEN \* process_trajectory raises ValueError before anything is stored
            /\ ret' = [op |-> "register_node", outcome |-> "raise", id |-> 0,
                       trajectory |-> trajectory,
                       initial_balance |-> initial_balance]
            /\ identities' =
                   stored_identities(identities, trajectory, operator_id,
                                     saltCounter + 1)
            /\ UNCHANGED <<nodes, saltCounter, metrics>>
       ELSE LET receipt ==
                    register_identity(trajectory, operator_id, saltCounter + 1)
                node == [operator_id |-> operator_id, did |-> receipt.did,
                         bio_hash |-> receipt.bio_hash, status |-> "protected",
                         balance |-> initial_balance, frozen_balance |-> 0,
                         last_verified |-> "created"]
            IN  /\ saltCounter' = saltCounter + 1
                /\ identities' =
                       stored_identities(identities, trajectory, operator_id,
                                         saltCounter + 1)
                /\ nodes' = Append(nodes, node)
                /\ metrics' = update_metrics(metrics, Append(nodes, node))
                /\ ret' = [op |-> "register_node", outcome |-> "ok",
                           id |-> Len(nodes) + 1, trajectory |-> trajectory,
                           initial_balance |-> initial_balance]
    /\ UNCHANGED <<executions, flows, thresholds, status, chains, receipts,
                   verification_history, threads,
                   bark,
                   engine>>

\* SovereignShield.initiate_capital_flow, run without interruption.
InitiateCapitalFlow(source, target, amount, logic) ==
    /\ Len(flows) < MaxFlows
    /\ Len(executions) < MaxExecutions
    /\ IF ~flow_checks(nodes, source, target, amount)
       THEN /\ ret' = [op |-> "initiate_capital_flow", outcome |-> "false",
                       id |-> 0, source |-> source, target |-> target,
                       amount |-> amount, logic |-> logic]
            /\ UNCHANGED <<nodes, flows, executions, chains, metrics>>
       ELSE LET r == flow_rest(nodes, flows, executions, chains, metrics,
                               source, target, amount, logic)
            IN  /\ nodes' = r.nodes
                /\ flows' = r.flows
                /\ executions' = r.executions
                /\ chains' = r.chains
                /\ metrics' = r.metrics
                /\ ret' = [op |-> "initiate_capital_flow", outcome |-> r.outcome,
                           id |-> r.id, source |-> source, target |-> target,
                           amount |-> amount, logic |-> logic]
    /\ UNCHANGED <<identities, saltCounter, thresholds, status, receipts,
                   verification_history, threads,
                   bark,
                   engine>>

\* The calls of initiate_capital_flow that have passed the checks and not
\* yet run the rest.
InFlight == Cardinality({t \in Threads : threads[t].pc = "checked"})

\* initiate_capital_flow on thread t, up to and including the balance check.
FlowBegin(t, source, target, amount, logic) ==
    /\ threads[t].pc = "idle"
    /\ Len(flows) + InFlight < MaxFlows
    /\ Len(executions) + InFlight < MaxExecutions
    /\ IF flow_checks(nodes, source, target, amount)
       THEN /\ threads' = [threads EXCEPT
                             ![t] = [pc |-> "checked", source |-> source,
                                     target |-> target, amount |-> amount,
                                     logic |-> logic]]
            /\ ret' = ret
       ELSE /\ ret' = [op |-> "initiate_capital_flow", outcome |-> "false",
                       id |-> 0, source |-> source, target |-> target,
                       amount |-> amount, logic |-> logic]
            /\ threads' = threads
    /\ UNCHANGED <<executions, nodes, identities, saltCounter, flows,
                   thresholds, status, metrics, chains, receipts,
                   verification_history,
                   bark,
                   engine>>

\* initiate_capital_flow on thread t from the creation of the flow record to
\* the return.
FlowFinish(t) ==
    /\ threads[t].pc = "checked"
    /\ LET c == threads[t]
           r == flow_rest(nodes, flows, executions, chains, metrics,
                          c.source, c.target, c.amount, c.logic)
       IN  /\ nodes' = r.nodes
           /\ flows' = r.flows
           /\ executions' = r.executions
           /\ chains' = r.chains
           /\ metrics' = r.metrics
           /\ ret' = [op |-> "initiate_capital_flow", outcome |-> r.outcome,
                      id |-> r.id, source |-> c.source, target |-> c.target,
                      amount |-> c.amount, logic |-> c.logic]
    /\ threads' = [threads EXCEPT ![t] = IdleThread]
    /\ UNCHANGED <<identities, saltCounter, thresholds, status, receipts,
                   verification_history,
                   bark,
                   engine>>

\* The keys of the metrics dicts of the model: two threshold ids and two
\* metric names.
MetricKeys ==
    {"violation_threshold", "liquidity_threshold", "identity_violations",
     "liquidity_ratio"}

MetricValues == {300 * k : k \in 0..MaxMetric}

\* The metrics dicts handed to check_collapse_thresholds: at most two keys.
MetricDicts ==
    UNION {[ks -> MetricValues] :
             ks \in {k \in SUBSET MetricKeys : Cardinality(k) <= 2}}

\* SovereignShield.check_collapse_thresholds
CheckCollapseThresholds(m) ==
    /\ LET r == check_from(thresholds, m, 1, <<>>)
       IN  /\ thresholds' = r.thresholds
           /\ IF r.triggered # <<>>
              THEN /\ metrics' = [metrics EXCEPT
                                    !.collapse_thresholds_triggered = r.triggered]
                   /\ status' = "compromised"
              ELSE /\ metrics' = metrics
                   /\ status' = "active"
           /\ ret' = [op |-> "check_collapse_thresholds", outcome |-> "ok",
                      metrics |-> m, triggered |-> r.triggered]
    /\ UNCHANGED <<executions, nodes, identities, saltCounter, flows, chains,
                   receipts, verification_history, threads,
                   bark,
                   engine>>

\* The values of the enum ShieldStatus.
ShieldStatus ==
    {"active", "compromised", "locked", "maintenance", "initializing"}

\* SovereignShield.set_status
SetStatus(new_status) ==
    /\ status' = new_status
    /\ ret' = [op |-> "set_status", outcome |-> "ok"]
    /\ UNCHANGED <<executions, nodes, identities, saltCounter, flows,
                   thresholds, metrics, chains, receipts, verification_history,
                   threads, bark, engine>>

\* SovereignShield.lock_shield
LockShield ==
    /\ status' = "locked"
    /\ ret' = [op |-> "lock_shield", outcome |-> "ok"]
    /\ UNCHANGED <<executions, nodes, identities, saltCounter, flows,
                   thresholds, metrics, chains, receipts, verification_history,
                   threads, bark, engine>>

\* SovereignShield.unlock_shield
UnlockShield ==
    /\ status' = "active"
    /\ ret' = [op |-> "unlock_shield", outcome |-> "ok"]
    /\ UNCHANGED <<executions, nodes, identities, saltCounter, flows,
                   thresholds, metrics, chains, receipts, verification_history,
                   threads, bark, engine>>

-----------------------------------------------------------------------------
(* Identity and violation operations *)

\* HDIdentitySystem.verify_identity with the salt generate_bio_hash draws:
\* "true", "false", or "raise" (ValueError from process_trajectory on an
\* empty trajectory, which is reached only for a registered operator).
verify_identity(ids, trajectory, operator_id, salt) ==
    IF ids[operator_id] = NoIdentity THEN "false"
    ELSE IF trajectory = "" THEN "raise"
    ELSE IF generate_bio_hash(trajectory, operator_id, salt)
                = ids[operator_id].bio_hash
    THEN "true"
    ELSE "false"

\* The trajectories handed to the verify calls: empty, the one the model
\* registers with, and a different one.
VerifyTrajectories == {"", "t1", "t2"}

\* HDIdentitySystem.register_identity called on shield.hd_identity.
RegisterIdentity(trajectory, operator_id) ==
    /\ saltCounter < MaxSalts
    /\ IF trajectory = ""
       THEN /\ ret' = [op |-> "register_identity", outcome |-> "raise",
                       operator_id |-> operator_id, trajectory |-> trajectory]
            /\ UNCHANGED <<identities, saltCounter>>
       ELSE /\ saltCounter' = saltCounter + 1
            /\ identities' =
                   [identities EXCEPT
                       ![operator_id] =
                           register_identity(trajectory, operator_id,
                                             saltCounter + 1)]
            /\ ret' = [op |-> "register_identity", outcome |-> "ok",
                       operator_id |-> operator_id, trajectory |-> trajectory]
    /\ UNCHANGED <<executions, nodes, flows, thresholds, status, metrics,
                   chains, receipts, verification_history, threads, bark,
                   engine>>

\* HDIdentitySystem.verify_identity called on shield.hd_identity.  The salt
\* it draws is new (no stored hash was made with it) and is thrown away with
\* the hash, so the count of stored salts stays.
VerifyIdentity(trajectory, operator_id) ==
    /\ LET v == verify_identity(identities, trajectory, operator_id,
                                saltCounter + 1)
       IN  ret' = [op |-> "verify_identity", outcome |-> v,
                   operator_id |-> operator_id, trajectory |-> trajectory,
                   receipt |-> IF v = "true" THEN identities[operator_id]
                               ELSE NoIdentity]
    /\ UNCHANGED <<executions, nodes, identities, saltCounter, flows,
                   thresholds, status, metrics, chains, receipts,
                   verification_history, threads, bark,
                   engine>>

\* SovereignShield.verify_node
VerifyNode(node_id, trajectory) ==
    /\ IF node_id \notin DOMAIN nodes
       THEN /\ ret' = [op |-> "verify_node", outcome |-> "false",
                       operator_id |-> None, trajectory |-> trajectory,
                       receipt |-> NoIdentity]
            /\ nodes' = nodes
       ELSE LET operator_id == nodes[node_id].operator_id
                v == verify_identity(identities, trajectory, operator_id,
                                     saltCounter + 1)
            IN  /\ nodes' = IF v = "true"
                            THEN [nodes EXCEPT
                                     ![node_id].last_verified = "verified"]
                            ELSE nodes
                /\ ret' = [op |-> "verify_node", outcome |-> v,
                           operator_id |-> operator_id,
                           trajectory |-> trajectory,
                           receipt |-> IF v = "true"
                                       THEN identities[operator_id]
                                       ELSE NoIdentity]
    /\ UNCHANGED <<executions, identities, saltCounter, flows, thresholds,
                   status, metrics, chains, receipts, verification_history,
                   threads, bark,
                   engine>>

\* The trajectory vectors handed to detect_identity_violation: empty, finite,
\* and one that holds a NaN.
ViolationTrajectories == {<<>>, <<Num(1, 1)>>, <<NaN>>}

\* The statements dicts handed to detect_identity_violation.
StatementDicts ==
    {<<>>,
     [n \in {"I_AM_THE_WEAPON"} |-> "I AM: THE WEAPON"],
     [n \in {"I_AM_THE_WEAPON"} |-> "I AM: A TOOL"],
     [n \in {"I_AM_THE_WEAPON"} |-> NonAsciiStatement],
     [n \in {"NO_SUCH_AXIOM"} |-> "I AM: THE WEAPON"]}

\* SovereignShield.detect_identity_violation
DetectIdentityViolation(node_id, trajectory, statements) ==
    /\ Len(bark.validation_history) < MaxValidations
    /\ IF node_id \notin DOMAIN nodes
       THEN /\ ret' = [op |-> "detect_identity_violation", outcome |-> "none",
                       node_id |-> node_id, statements |-> statements,
                       violation |-> NoViolation]
            /\ UNCHANGED <<nodes, metrics, bark>>
       ELSE LET r == validate_identity(bark, nodes[node_id].operator_id,
                                       trajectory, "identity", statements)
                quarantined == quarantine(nodes, node_id)
            IN  /\ bark' = r.bark
                /\ nodes' = IF r.violation.found THEN quarantined ELSE nodes
                /\ metrics' = IF r.violation.found
                              THEN update_metrics(metrics, quarantined)
                              ELSE metrics
                /\ ret' = [op |-> "detect_identity_violation",
                           outcome |-> IF r.outcome = "raise" THEN "raise"
                                       ELSE IF r.violation.found
                                       THEN "violation"
                                       ELSE "none",
                           node_id |-> node_id, statements |-> statements,
                           violation |-> r.violation]
    /\ UNCHANGED <<executions, identities, saltCounter, flows, thresholds,
                   status, chains, receipts, verification_history, threads,
                   engine>>

\* Fingerprints handed to the DID generator: two of 34 characters that
\* agree on the first 32, one that differs within them, and two short ones.
DidFingerprints ==
    {"0123456789abcdef0123456789abcdef00",
     "0123456789abcdef0123456789abcdefff",
     "f123456789abcdef0123456789abcdef00",
     "a", "ab"}

\* Operator ids handed to the DID generator: two of 18 characters that agree
\* on the first 16, and short ones.
DidOperators ==
    {"alice", "bob", "operator-0123456-A", "operator-0123456-B", "bc", "c"}

\* The DIDs presented for verification.
DidInputs ==
    {generate_did(b, o) : b \in DidFingerprints, o \in DidOperators}
        \cup {"did:axiom:", NonAsciiDid}

\* DIDGenerator.generate_did, called on its own
GenerateDid(bio_hash, operator_id) ==
    /\ ret' = [op |-> "generate_did", outcome |-> "return",
               bio_hash |-> bio_hash, operator_id |-> operator_id,
               did |-> generate_did(bio_hash, operator_id)]
    /\ UNCHANGED <<executions, nodes, identities, saltCounter, flows,
                   thresholds, status, metrics, chains, receipts,
                   verification_history, threads, bark,
                   engine>>

\* DIDGenerator.verify_did, called on its own
VerifyDid(did, expected_bio_hash, operator_id) ==
    /\ ret' = [op |-> "verify_did",
               outcome |-> verify_did(did, expected_bio_hash, operator_id),
               bio_hash |-> expected_bio_hash, operator_id |-> operator_id,
               did |-> did]
    /\ UNCHANGED <<executions, nodes, identities, saltCounter, flows,
                   thresholds, status, metrics, chains, receipts,
                   verification_history, threads, bark,
                   engine>>

\* Start vectors handed to compute_fixed_point.
FixedPointVectors ==
    {<<>>, <<Num(0, 1)>>, <<Num(1, 1)>>, <<Num(-3, 1)>>, <<Num(8, 1)>>,
     <<Num(40, 1)>>, <<NaN>>}

\* The tolerances and divergence thresholds a FixedPointConvergence is
\* constructed with here.
Tolerances == {Num(0, 1), Num(1, 4)}

DivergenceThresholds == {Num(2, 1), Num(16, 1)}

\* FixedPointConvergence(max_iterations, tolerance, divergence_threshold)
\* .compute_fixed_point(operator_vector, system_function)
ComputeFixedPoint(operator_vector, system_function, max_iterations, tolerance, divergence_threshold) ==
    /\ LET r == compute_fixed_point(operator_vector, system_function,
                                    max_iterations, tolerance,
                                    divergence_threshold)
       IN  ret' = [op |-> "compute_fixed_point", outcome |-> r.outcome,
                   operator_vector |-> operator_vector,
                   system_function |-> system_function,
                   max_iterations |-> max_iterations,
                   tolerance |-> tolerance,
                   divergence_threshold |-> divergence_threshold,
                   state |-> r]
    /\ UNCHANGED <<executions, nodes, identities, saltCounter, flows,
                   thresholds, status, metrics, chains, receipts,
                   verification_history, threads, bark,
                   engine>>

\* The messages users send.
UserMessages == {"hello", "help bark"}

\* time.time() moves on between two calls.
Tick(d) ==
    /\ engine.now + d <= MaxTime
    /\ engine' = [engine EXCEPT !.now = @ + d]
    /\ ret' = [op |-> "tick", outcome |-> "ok"]
    /\ UNCHANGED <<executions, nodes, identities, saltCounter, flows,
                   thresholds, status, metrics, chains, receipts,
                   verification_history, threads, bark>>

\* ChatEngine.chat
Chat(session_id, user_message) ==
    /\ (session_id = 0 \/ get_session(engine, session_id).session_id = 0)
           => engine.created < MaxSessions
    /\ session_id \in DOMAIN engine.sessions =>
           Len(engine.sessions[session_id].messages) + 2 <= MaxHistory
    /\ LET r == chat(engine, session_id, user_message)
       IN  /\ engine' = r.engine
           /\ ret' = [op |-> "chat", outcome |-> "ok",
                      session_id |-> session_id, user_message |-> user_message,
                      result |-> r.session_id, response |-> r.response]
    /\ UNCHANGED <<executions, nodes, identities, saltCounter, flows,
                   thresholds, status, metrics, chains, receipts,
                   verification_history, threads, bark>>

\* ChatEngine.get_session
GetSession(session_id) ==
    /\ LET r == get_session(engine, session_id)
       IN  /\ engine' = r.engine
           /\ ret' = [op |-> "get_session",
                      outcome |-> IF r.session_id = 0 THEN "none" ELSE "session",
                      session_id |-> session_id]
    /\ UNCHANGED <<executions, nodes, identities, saltCounter, flows,
                   thresholds, status, metrics, chains, receipts,
                   verification_history, threads, bark>>

\* ChatEngine.get_history
GetHistory(session_id) ==
    /\ LET r == get_history(engine, session_id)
       IN  /\ engine' = r.engine
           /\ ret' = [op |-> "get_history",
                      outcome |-> IF r.found THEN "list" ELSE "none",
                      session_id |-> session_id, messages |-> r.messages]
    /\ UNCHANGED <<executions, nodes, identities, saltCounter, flows,
                   thresholds, status, metrics, chains, receipts,
                   verification_history, threads, bark>>

\* ChatEngine.clear_session
ClearSession(session_id) ==
    /\ LET r == clear_session(engine, session_id)
       IN  /\ engine' = r.engine
           /\ ret' = [op |-> "clear_session",
                      outcome |-> IF r.cleared THEN "true" ELSE "false",
                      session_id |-> session_id]
    /\ UNCHANGED <<executions, nodes, identities, saltCounter, flows,
                   thresholds, status, metrics, chains, receipts,
                   verification_history, threads, bark>>

\* ChatEngine.purge_expired_sessions
PurgeExpiredSessions ==
    /\ LET r == purge_expired_sessions(engine)
       IN  /\ engine' = r.engine
           /\ ret' = [op |-> "purge_expired_sessions", outcome |-> "ok",
                      count |-> r.count]
    /\ UNCHANGED <<executions, nodes, identities, saltCounter, flows,
                   thresholds, status, metrics, chains, receipts,
                   verification_history, threads, bark>>

-----------------------------------------------------------------------------
(* Proof chain operations *)

OperationTypes == {"TRANSFER"}

InputDicts == {[amount |-> "100"], [amount |-> "3000"]}

\* The outputs dicts: a status, and the dicts that read like the payload the
\* operation step is hashed from.
OutputDicts ==
    {[status |-> "executed"]}
    \cup {[operation_type |-> o, input_hash |-> Sha3_256(dumps(i))] :
            o \in OperationTypes, i \in InputDicts}

\* What a caller may overwrite a step's data with.
TamperedData ==
    {[tampered |-> "1"], [is_deterministic |-> TRUE, entropy_measure |-> 1]}

\* ProofChainGenerator.create_proof_chain.  With an execution record it
\* calls execution_record.to_dict(), which ExecutionRecord does not have:
\* AttributeError, and no chain is stored.
CreateProofChain(operation_type, inputs, outputs, operator_id, with_record) ==
    /\ Len(chains) < MaxChains
    /\ IF with_record
       THEN /\ chains' = chains
            /\ ret' = [op |-> "create_proof_chain", outcome |-> "raise", id |-> 0,
                       with_record |-> TRUE]
       ELSE LET chain ==
                    create_proof_chain(operation_type, inputs, outputs,
                                       operator_id)
            IN  /\ chains' = Append(chains, [steps |-> chain, built |-> chain])
                /\ ret' = [op |-> "create_proof_chain", outcome |-> "ok",
                           id |-> Len(chains) + 1, with_record |-> FALSE]
    /\ UNCHANGED <<executions, nodes, identities, saltCounter, flows,
                   thresholds, status, metrics, receipts, verification_history,
                   threads,
                   bark,
                   engine>>

\* ProofChainGenerator.generate_receipt on chain c.  Beside the receipt the
\* entry remembers which chain it was made from and whether that chain was
\* still as built.
GenerateReceipt(c, inputs, outputs) ==
    /\ Len(receipts) < MaxReceipts
    /\ c \in DOMAIN chains
    /\ receipts' =
           Append(receipts,
                  [receipt |-> generate_receipt(chains[c].steps, inputs, outputs),
                   chain |-> c,
                   original |-> (chains[c].steps = chains[c].built)])
    /\ ret' = [op |-> "generate_receipt", outcome |-> "ok",
               id |-> Len(receipts) + 1]
    /\ UNCHANGED <<executions, nodes, identities, saltCounter, flows,
                   thresholds, status, metrics, chains, verification_history,
                   threads,
                   bark,
                   engine>>

\* The holder of chain c overwrites the data of its step i (one step of a
\* chain that is still as built).
TamperStep(c, i, data) ==
    /\ c \in DOMAIN chains
    /\ chains[c].steps = chains[c].built
    /\ i \in DOMAIN chains[c].steps
    /\ chains[c].steps[i].data # data
    /\ chains' = [chains EXCEPT ![c].steps[i].data = data]
    /\ ret' = [op |-> "tamper", outcome |-> "ok", id |-> c]
    /\ UNCHANGED <<executions, nodes, identities, saltCounter, flows,
                   thresholds, status, metrics, receipts, verification_history,
                   threads,
                   bark,
                   engine>>

\* C0Verifier.verify_proof_chain on chain c and receipt r.
VerifyProofChain(c, r) ==
    /\ Len(verification_history) < MaxVerifications
    /\ c \in DOMAIN chains
    /\ r \in DOMAIN receipts
    /\ LET st == verify_proof_chain(chains[c].steps, receipts[r].receipt)
       IN  /\ verification_history' =
                  Append(verification_history,
                         [is_valid |-> (st = "valid"), status |-> st])
           /\ ret' = [op |-> "verify_proof_chain",
                      outcome |-> IF st = "valid" THEN "true" ELSE "false",
                      status |-> st, chain |-> c, receipt |-> r]
    /\ UNCHANGED <<executions, nodes, identities, saltCounter, flows,
                   thresholds, status, metrics, chains, receipts, threads,
                   bark, engine>>

\* DeterministicReceipt.verify and C0Verifier.verify_c0_claim on receipt r.
VerifyC0Claim(r) ==
    /\ r \in DOMAIN receipts
    /\ LET c0 == verify_c0_claim(receipts[r].receipt)
       IN  ret' = [op |-> "verify_c0_claim",
                   outcome |-> IF c0.is_c0 THEN "true" ELSE "false",
                   explanation |-> c0.explanation,
                   verify |-> receipt_verify(receipts[r].receipt),
                   receipt |-> r]
    /\ UNCHANGED <<executions, nodes, identities, saltCounter, flows,
                   thresholds, status, metrics, chains, receipts,
                   verification_history, threads, bark, engine>>

-----------------------------------------------------------------------------
(* Specifications *)

\* The gate on its own.
NextGate ==
    \/ \E n \in BOOLEAN, a \in GateAmounts : GateInitiate(n, a)
    \/ \E l \in Logics, n \in BOOLEAN, a \in GateAmounts :
          GateExecuteFullGate(l, n, a)

SpecGate == Init /\ [][NextGate]_vars

\* The orchestrator, one call at a time.
Next ==
    \/ \E o \in Operators, tr \in Trajectories, b \in Balances :
          RegisterNode(o, tr, b)
    \/ \E s \in 0..MaxNodes, t \in 0..MaxNodes, a \in Amounts, l \in FlowLogics :
          InitiateCapitalFlow(s, t, a, l)

Spec == Init /\ [][Next]_vars

\* The identity binder and the orchestrator's identity operations.
NextIdentity ==
    \/ \E o \in Operators, tr \in Trajectories : RegisterNode(o, tr, 5000)
    \/ \E o \in Operators, tr \in Trajectories : RegisterIdentity(tr, o)
    \/ \E o \in Operators, tr \in VerifyTrajectories : VerifyIdentity(tr, o)
    \/ \E n \in 0..MaxNodes, tr \in VerifyTrajectories : VerifyNode(n, tr)

SpecIdentity == Init /\ [][NextIdentity]_vars

\* The orchestrator's operations that read or write a node's status:
\* registration, violation detection, and transfers.
NextViolation ==
    \/ \E o \in Operators : RegisterNode(o, "t1", 5000)
    \/ \E n \in 0..MaxNodes, tr \in ViolationTrajectories,
          st \in StatementDicts : DetectIdentityViolation(n, tr, st)
    \/ \E s \in 0..MaxNodes, t \in 0..MaxNodes :
          /\ Len(flows) < MaxViolationFlows
          /\ InitiateCapitalFlow(s, t, 100, "none")

SpecViolation == Init /\ [][NextViolation]_vars

\* The orchestrator's operations that change a balance or a status, on nodes
\* whose balances reach the cap of the health score.
MetricBalances == {0, 2000000}

NextMetrics ==
    \/ \E o \in Operators, b \in MetricBalances : RegisterNode(o, "t1", b)
    \/ \E n \in 0..MaxNodes, tr \in ViolationTrajectories,
          st \in StatementDicts : DetectIdentityViolation(n, tr, st)
    \/ \E s \in 0..MaxNodes, t \in 0..MaxNodes :
          /\ Len(flows) < MaxViolationFlows
          /\ InitiateCapitalFlow(s, t, 100, "none")

SpecMetrics == Init /\ [][NextMetrics]_vars

\* The shield's status under the orchestrator's operations.  The metrics
\* dicts handed to check_collapse_thresholds hold at most the violation
\* threshold's id.
LockMetricDicts ==
    {m \in MetricDicts : DOMAIN m \subseteq {"violation_threshold"}}

NextLock ==
    \/ LockShield
    \/ UnlockShield
    \/ \E s \in ShieldStatus : SetStatus(s)
    \/ \E m \in LockMetricDicts : CheckCollapseThresholds(m)
    \/ \E o \in Operators : RegisterNode(o, "t1", 5000)
    \/ \E n \in 0..MaxNodes, st \in StatementDicts :
          DetectIdentityViolation(n, <<Num(1, 1)>>, st)
    \/ \E s \in 0..MaxNodes, t \in 0..MaxNodes :
          /\ Len(flows) < MaxViolationFlows
          /\ InitiateCapitalFlow(s, t, 100, "none")

SpecLock == Init /\ [][NextLock]_vars

\* The gate driven stage by stage.
NextStage ==
    \/ \E n \in BOOLEAN, a \in GateAmounts :
          /\ Len(executions) < MaxStagedExecutions
          /\ GateInitiate(n, a)
    \/ \E l \in Logics, n \in BOOLEAN, a \in GateAmounts :
          /\ Len(executions) < MaxStagedExecutions
          /\ GateExecuteFullGate(l, n, a)
    \/ \E id \in 0..MaxStagedExecutions, st \in GateStage, kw \in Kwargs :
          GateExecuteStage(id, st, kw)

SpecStage == Init /\ [][NextStage]_vars

\* The chat engine and its clock.
NextChat ==
    \/ \E d \in {SESSION_TTL, SESSION_TTL + 1} : Tick(d)
    \/ \E sid \in 0..MaxSessions, m \in UserMessages : Chat(sid, m)
    \/ \E sid \in 1..MaxSessions : GetSession(sid)
    \/ \E sid \in 1..MaxSessions : GetHistory(sid)
    \/ \E sid \in 1..MaxSessions : ClearSession(sid)
    \/ PurgeExpiredSessions

SpecChat == Init /\ [][NextChat]_vars

\* The fixed-point iteration on its own.
NextFixedPoint ==
    \E z \in FixedPointVectors, f \in SystemFunctions,
       m \in 0..MaxIterationsLimit, tol \in Tolerances,
       thr \in DivergenceThresholds :
        ComputeFixedPoint(z, f, m, tol, thr)

SpecFixedPoint == Init /\ [][NextFixedPoint]_vars

\* The Shadowing executor on its own.
NextShadow ==
    \E n \in 0..MaxHosts, outputs \in [1..MaxHosts -> HostOutputs] :
        ShadowExecute(n, outputs)

SpecShadow == Init /\ [][NextShadow]_vars

\* The DID generator on its own.
NextDid ==
    \/ \E b \in DidFingerprints, o \in DidOperators : GenerateDid(b, o)
    \/ \E d \in DidInputs, b \in DidFingerprints, o \in DidOperators :
          VerifyDid(d, b, o)

SpecDid == Init /\ [][NextDid]_vars

\* The orchestrator with initiate_capital_flow calls running concurrently.
\* They start on the shield of the usage example: alice registered with 5000
\* and bob with 0.
InitRace ==
    LET ra == register_identity("t1", "alice", 1)
        rb == register_identity("t1", "bob", 2)
        ns == << [operator_id |-> "alice", did |-> ra.did,
                  bio_hash |-> ra.bio_hash, status |-> "protected",
                  balance |-> 5000, frozen_balance |-> 0,
                  last_verified |-> "created"],
                 [operator_id |-> "bob", did |-> rb.did,
                  bio_hash |-> rb.bio_hash, status |-> "protected",
                  balance |-> 0, frozen_balance |-> 0,
                  last_verified |-> "created"] >>
    IN  /\ executions = <<>>
        /\ nodes = ns
        /\ identities = [o \in Operators |-> IF o = "alice" THEN ra ELSE rb]
        /\ saltCounter = 2
        /\ flows = <<>>
        /\ thresholds = DEFAULT_THRESHOLDS
        /\ status = "active"
        /\ metrics = update_metrics(
                         [total_nodes |-> 0, protected_nodes |-> 0,
                          exposed_nodes |-> 0, total_value_locked |-> 0,
                          hrl_num |-> 1, hrl_den |-> 1,
                          collapse_thresholds_triggered |-> <<>>], ns)
        /\ chains = <<>>
        /\ receipts = <<>>
        /\ verification_history = <<>>
        /\ threads = [t \in Threads |-> IdleThread]
        /\ bark = NoBark
        /\ engine = NoSessions
        /\ ret = NoRet

NextRace ==
    \/ \E th \in Threads, s \in DOMAIN nodes, t \in DOMAIN nodes, a \in Amounts,
          l \in FlowLogics :
          FlowBegin(th, s, t, a, l)
    \/ \E th \in Threads : FlowFinish(th)

SpecRace == InitRace /\ [][NextRace]_vars

\* The proof chain generator and verifier.
NextChain ==
    \/ \E o \in OperationTypes, i \in InputDicts, u \in OutputDicts,
          w \in BOOLEAN :
          CreateProofChain(o, i, u, "alice", w)
    \/ \E c \in 1..MaxChains, i \in InputDicts :
          GenerateReceipt(c, i, [status |-> "executed"])
    \/ \E c \in 1..MaxChains, i \in 1..Len(ProofTypes), d \in TamperedData :
          TamperStep(c, i, d)
    \/ \E c \in 1..MaxChains, r \in 1..MaxReceipts : VerifyProofChain(c, r)
    \/ \E r \in 1..MaxReceipts : VerifyC0Claim(r)

SpecChain == Init /\ [][NextChain]_vars

\* The collapse thresholds.
NextThresholds == \E m \in MetricDicts : CheckCollapseThresholds(m)

SpecThresholds == Init /\ [][NextThresholds]_vars

-----------------------------------------------------------------------------
(* The gate: C1, C2 (under SpecGate) *)

\* The stages of execution e that have a StageExecution record.
Recorded(e) == {s \in GateStage : e.stages[s].status # "absent"}

\* C1: when a call of execute_full_gate has ended at a stage that did not
\* succeed (the last stage it ran is not COMPLETED), the call returned
\* approved = false, the execution's is_approved is false, and no stage after
\* that one has a record.  The code does not do this: the Registration
\* executor raises, so the call returns nothing at all.
C1_StageFailureRejects ==
    (ret.op = "execute_full_gate" /\ ret.attempts # <<>>) =>
        LET e == executions[ret.id]
            k == Len(ret.attempts)
        IN  get_stage_status(e, ret.attempts[k]) # "completed" =>
                /\ ret.outcome = "false"
                /\ ~e.is_approved
                /\ \A j \in DOMAIN GateStages :
                       j > k => GateStages[j] \notin Recorded(e)

-----------------------------------------------------------------------------
(* Capital flows: C3, C4 (under Spec), C5 (under SpecRace) *)

\* C3: on a shield with alice holding 5000 and bob holding 0, the call
\* initiate_capital_flow(alice, bob, 100) with a deterministic execution
\* logic is approved and returns an execution id, leaves alice with 4900 and
\* bob with 100, and the receipt of the flow verifies against its proof
\* chain.  The code raises TypeError in the Registration stage instead.
C3_ExampleTransfer ==
    [][ ( /\ ret'.op = "initiate_capital_flow"
          /\ Len(nodes) = 2
          /\ ret'.source = 1 /\ ret'.target = 2
          /\ ret'.amount = 100 /\ ret'.logic = "det"
          /\ nodes[1].operator_id = "alice" /\ nodes[1].balance = 5000
          /\ nodes[2].operator_id = "bob" /\ nodes[2].balance = 0 )
        => ( /\ ret'.outcome = "true"
             /\ ret'.id \in DOMAIN executions'
             /\ executions'[ret'.id].is_approved
             /\ nodes'[1].balance = 4900
             /\ nodes'[2].balance = 100
             /\ Len(flows') = Len(flows) + 1
             /\ flows'[Len(flows')].receipt # <<>>
             /\ chains' # <<>>
             /\ verify_proof_chain(chains'[Len(chains')].steps,
                                   flows'[Len(flows')].receipt[1]) = "valid" )
      ]_vars

\* C4: a call of initiate_capital_flow whose two nodes exist and whose amount
\* exceeds the source's balance minus its frozen balance returns
\* (false, none), creates no gate execution, and changes no node's balance.
C4_InsufficientBalanceRejected ==
    [][ ( /\ ret'.op = "initiate_capital_flow"
          /\ ret'.source \in DOMAIN nodes
          /\ ret'.target \in DOMAIN nodes
          /\ nodes[ret'.source].balance - nodes[ret'.source].frozen_balance
                 < ret'.amount )
        => ( /\ ret'.outcome = "false"
             /\ ret'.id = 0
             /\ executions' = executions
             /\ flows' = flows
             /\ DOMAIN nodes' = DOMAIN nodes
             /\ \A i \in DOMAIN nodes : nodes'[i].balance = nodes[i].balance )
      ]_vars

\* C4's case: a call between two registered nodes, from a protected source
\* that holds less than the amount, has returned false.
C4_Witness ==
    /\ ret.op = "initiate_capital_flow"
    /\ ret.source \in DOMAIN nodes
    /\ ret.target \in DOMAIN nodes
    /\ nodes[ret.source].status = "protected"
    /\ nodes[ret.source].balance - nodes[ret.source].frozen_balance < ret.amount
    /\ ret.outcome = "false"
    /\ executions = <<>>

\* The sum of the amounts of the executed flows that node i is the `role`
\* ("source_node_id" or "target_node_id") of.
RECURSIVE ExecutedAmount(_, _, _)
ExecutedAmount(fl, role, i) ==
    IF fl = <<>> THEN 0
    ELSE (IF Head(fl).executed /\ Head(fl)[role] = i THEN Head(fl).amount ELSE 0)
         + ExecutedAmount(Tail(fl), role, i)

-----------------------------------------------------------------------------
(* Proof chains: C6, C7, C8, C9 (under SpecChain) *)

\* C6: every chain create_proof_chain returned has five steps, of the types
\* INPUT, OPERATION, VERIFICATION, OUTPUT, SIGNATURE in that order; the first
\* step's previous_hash is the genesis value of 64 zeros, and every later
\* step's previous_hash is the hash_value of the step before it.
C6_ChainLinked ==
    LET types == <<"input", "operation", "verification", "output", "signature">>
    IN  \A c \in DOMAIN chains :
            LET chain == chains[c].built
            IN  /\ Len(chain) = Len(types)
                /\ \A i \in DOMAIN chain : chain[i].proof_type = types[i]
                /\ Len(chain[1].previous_hash) = 64
                /\ chain[1].previous_hash = GenesisHash
                /\ \A i \in DOMAIN chain :
                       i > 1 => chain[i].previous_hash = chain[i - 1].hash_value

\* C6's case: create_proof_chain has returned a chain.
C6_Witness ==
    /\ chains # <<>>
    /\ Len(chains[1].built) > 1
    /\ chains[1].built[1].hash_value # GenesisHash

\* The last call was verify_proof_chain, on a chain and a receipt that
\* generate_receipt made from that chain while it was as built.
VerifiedOwnReceipt ==
    /\ ret.op = "verify_proof_chain"
    /\ receipts[ret.receipt].chain = ret.chain
    /\ receipts[ret.receipt].original

\* C7: verify_proof_chain on an unmodified chain and the receipt generated
\* from it returns (true, VALID).  The code returns (false, INVALID) for an
\* ordinary chain, because the receipt carries the Output step's hash (C9).
C7_UnmodifiedChainVerifies ==
    (VerifiedOwnReceipt /\ chains[ret.chain].steps = chains[ret.chain].built)
        => (ret.outcome = "true" /\ ret.status = "valid")

\* C8: verify_proof_chain on a chain one of whose steps' payload was changed
\* after the chain was built returns INVALID.  The code never reads a step's
\* payload, so a chain whose receipt verified still verifies after the
\* change.
C8_TamperedChainRejected ==
    (VerifiedOwnReceipt /\ chains[ret.chain].steps # chains[ret.chain].built)
        => (ret.outcome = "false" /\ ret.status = "invalid")

\* C9: the operation_hash of a receipt generate_receipt returned is the
\* hash_value of the Operation step of its chain.  The code takes the
\* second-to-last step, which is the Output step.
C9_ReceiptOperationHash ==
    \A r \in DOMAIN receipts :
        LET chain == chains[receipts[r].chain].built
        IN  receipts[r].receipt.operation_hash
                = chain[FirstOfType(chain, "operation")].hash_value

-----------------------------------------------------------------------------
(* Collapse thresholds: C10 (under SpecThresholds) *)

\* C10: with the default thresholds (violation threshold 5, warning level
\* 2), check_collapse_thresholds({identity_violations: 3}) finds the value in
\* the warning zone, leaves the untriggered threshold untriggered and
\* returns nothing; check_collapse_thresholds({identity_violations: 6})
\* returns the violation threshold, sets its is_triggered flag and sets the
\* shield status to COMPROMISED.  The code looks the metrics up by threshold
\* id, so the second call returns nothing and the status is ACTIVE.
C10_ViolationThreshold ==
    [][ ( /\ ret'.op = "check_collapse_thresholds"
          /\ DOMAIN ret'.metrics = {"identity_violations"} )
        => LET value == ret'.metrics["identity_violations"]
               threshold == thresholds["violation_threshold"]
           IN  /\ value = 300 =>
                     /\ is_warning(threshold, value)
                     /\ ~check(threshold, value).is_triggered
                     /\ ~threshold.is_triggered =>
                            ~thresholds'["violation_threshold"].is_triggered
                     /\ ret'.triggered = <<>>
               /\ value = 600 =>
                     /\ "violation_threshold" \in Range(ret'.triggered)
                     /\ thresholds'["violation_threshold"].is_triggered
                     /\ status' = "compromised"
      ]_vars

-----------------------------------------------------------------------------
(* Identity violations: C11, C12 (under SpecViolation) *)

\* C11: when detect_identity_violation returns a violation for a registered
\* node, the node is QUARANTINED afterwards; when it returns none, the
\* node's status is what it was; a QUARANTINED node stays QUARANTINED under
\* every operation, and every transfer with it as source returns
\* (false, none) and moves nothing.
C11_ViolationQuarantines ==
    [][ /\ ( /\ ret'.op = "detect_identity_violation"
             /\ ret'.node_id \in DOMAIN nodes )
           => /\ ret'.outcome = "violation" =>
                     nodes'[ret'.node_id].status = "quarantined"
              /\ ret'.outcome = "none" =>
                     nodes'[ret'.node_id].status = nodes[ret'.node_id].status
        /\ \A i \in DOMAIN nodes :
               nodes[i].status = "quarantined" =>
                   /\ nodes'[i].status = "quarantined"
                   /\ (ret'.op = "initiate_capital_flow" /\ ret'.source = i)
                          => /\ ret'.outcome = "false"
                             /\ ret'.id = 0
                             /\ flows' = flows
                             /\ executions' = executions
                             /\ nodes' = nodes
      ]_vars

\* C11's case: a violation was recorded, and a transfer the source's balance
\* covers has been rejected because the source is QUARANTINED.
C11_Witness ==
    /\ bark.violation_history # <<>>
    /\ ret.op = "initiate_capital_flow"
    /\ ret.source \in DOMAIN nodes
    /\ ret.target \in DOMAIN nodes
    /\ nodes[ret.source].status = "quarantined"
    /\ nodes[ret.source].balance - nodes[ret.source].frozen_balance >= ret.amount
    /\ ret.outcome = "false"

\* C12: detect_identity_violation on a registered node never raises; for
\* statements that fail validation (an axiom name that is not in the
\* registry, or a text that differs from the axiom's) it returns a
\* violation and the node is QUARANTINED.  The code raises ValueError for an
\* unknown axiom name.
C12_FailureIsAValue ==
    ( /\ ret.op = "detect_identity_violation"
      /\ ret.node_id \in DOMAIN nodes )
    => /\ ret.outcome # "raise"
       /\ ( \E name \in DOMAIN ret.statements :
                \/ name \notin DOMAIN DEFAULT_AXIOMS
                \/ ret.statements[name] # DEFAULT_AXIOMS[name] )
          => /\ ret.outcome = "violation"
             /\ ret.violation.found
             /\ nodes[ret.node_id].status = "quarantined"

-----------------------------------------------------------------------------
(* Identity binding: C13, C14 (under SpecIdentity), C15 (under SpecDid) *)

\* C13: verify_identity, and verify_node through it, on a registered entity
\* returns (true, the stored record) for the trajectory the entity was
\* registered with, and (false, none) for a different (non-empty) one.  The
\* code draws a new salt for the hash it compares, so it returns
\* (false, none) for the registered trajectory as well.
C13_IdentityRoundTrip ==
    ( /\ ret.op \in {"verify_identity", "verify_node"}
      /\ ret.operator_id # None
      /\ identities[ret.operator_id] # NoIdentity
      /\ ret.trajectory # "" )
    => IF identities[ret.operator_id].trajectory_hash
              = compute_trajectory_hash(ret.trajectory)
       THEN ret.outcome = "true" /\ ret.receipt = identities[ret.operator_id]
       ELSE ret.outcome = "false" /\ ret.receipt = NoIdentity

\* C14: an entity's identity record, once stored, is never replaced, and
\* every node's fingerprint and DID are those of the record stored for its
\* entity id.  The code stores the new record over the old one.
C14_StoreOnce ==
    [][ /\ \A o \in Operators :
               identities[o] # NoIdentity => identities'[o] = identities[o]
        /\ \A i \in DOMAIN nodes' :
               /\ nodes'[i].bio_hash = identities'[nodes'[i].operator_id].bio_hash
               /\ nodes'[i].did = identities'[nodes'[i].operator_id].did
      ]_vars

\* C15 as stated: generate_did gives different DIDs to different
\* (fingerprint, entity id) pairs, and verify_did(d, fp, id) is true exactly
\* when d = generate_did(fp, id).  Ids that agree on their first 16
\* characters get the same DID.
C15_DidInjective ==
    [][ /\ ( /\ ret.op = "generate_did"
             /\ ret'.op = "generate_did"
             /\ \/ ret.bio_hash # ret'.bio_hash
                \/ ret.operator_id # ret'.operator_id )
           => ret'.did # ret.did
        /\ ret'.op = "verify_did"
           => ( ret'.outcome = "true"
                <=> ret'.did = generate_did(ret'.bio_hash, ret'.operator_id) )
      ]_vars

\* C15, amended: generate_did gives different DIDs to two pairs whose
\* fingerprints have at least 32 characters and which differ in the first 32
\* characters of the fingerprint or in the first 16 of the entity id; and
\* verify_did(d, fp, id) is true exactly when d = generate_did(fp, id).
C15_DidInjectiveOnPrefixes ==
    [][ /\ ( /\ ret.op = "generate_did"
             /\ ret'.op = "generate_did"
             /\ Len(ret.bio_hash) >= 32
             /\ Len(ret'.bio_hash) >= 32
             /\ \/ SubSeq(ret.bio_hash, 1, 32) # SubSeq(ret'.bio_hash, 1, 32)
                \/ SubSeq(ret.operator_id, 1, Min(16, Len(ret.operator_id)))
                     # SubSeq(ret'.operator_id, 1,
                              Min(16, Len(ret'.operator_id))) )
           => ret'.did # ret.did
        /\ ret'.op = "verify_did"
           => ( ret'.outcome = "true"
                <=> ret'.did = generate_did(ret'.bio_hash, ret'.operator_id) )
      ]_vars

\* C15's case: verify_did has refused the DID of another pair, one with the
\* same fingerprint and an entity id that differs within its first 16
\* characters.
C15_Witness ==
    /\ ret.op = "verify_did"
    /\ ret.outcome = "false"
    /\ Len(ret.bio_hash) >= 32
    /\ \E o \in DidOperators :
           /\ o # ret.operator_id
           /\ ret.did = generate_did(ret.bio_hash, o)

-----------------------------------------------------------------------------
(* Stage records: C16 (under SpecStage), C18 (under Spec) *)

\* C16: every stage record with status FAILED carries a non-empty error
\* string.  A stage whose execute returned false is recorded FAILED with
\* error None.
C16_FailedHasError ==
    \A i \in DOMAIN executions : \A st \in GateStage :
        executions[i].stages[st].status = "failed"
            => /\ executions[i].stages[st].error # None
               /\ executions[i].stages[st].error # ""

\* C18: a transfer started without execution_logic, between registered nodes
\* and covered by the source's balance, returns approved = false without
\* raising; the Shadowing record of its gate execution is FAILED with a
\* non-empty reason; and no balance changes.  The call raises at
\* Registration instead.
C18_NoLogicRejectedAtShadowing ==
    [][ ( /\ ret'.op = "initiate_capital_flow"
          /\ ret'.logic = "none"
          /\ flow_checks(nodes, ret'.source, ret'.target, ret'.amount) )
        => /\ ret'.outcome = "false"
           /\ Len(executions') = Len(executions) + 1
           /\ LET shadowing == executions'[Len(executions')].stages["shadowing"]
              IN  /\ shadowing.status = "failed"
                  /\ shadowing.error # None
                  /\ shadowing.error # ""
           /\ \A i \in DOMAIN nodes : nodes'[i].balance = nodes[i].balance
      ]_vars

-----------------------------------------------------------------------------
(* Fixed-point iteration: C19, C20 (under SpecFixedPoint) *)

\* The norm of a vector, and whether it has a coordinate that is not a
\* number.
Norm(v) == NormOfDifference(v, [i \in DOMAIN v |-> Num(0, 1)])

Unbounded(v) == \E i \in DOMAIN v : v[i].nan

\* norm(v) / 2^n
HalvedNorm(v, n) ==
    LET norm == Norm(v) IN Num(norm.n, norm.d * 2^n)

\* C19 as stated: for the map z / 2 and every start vector of finite
\* numbers, compute_fixed_point returns is_converged = true after at most
\* max_iterations iterations with a fixed point whose norm is below the
\* tolerance.  A start vector whose first step is longer than the divergence
\* threshold is reported as diverged, and a max_iterations too small for the
\* tolerance ends the loop first.
C19_HalfAlwaysConverges ==
    ( /\ ret.op = "compute_fixed_point"
      /\ ret.system_function = "half"
      /\ ~Unbounded(ret.operator_vector) )
    => /\ ret.outcome = "ok"
       /\ ret.state.is_converged
       /\ ret.state.current_iteration <= ret.max_iterations
       /\ Lt(Norm(ret.state.fixed_point), ret.tolerance)

\* C19, amended: for the map z / 2, a positive tolerance and a start vector
\* z0 of finite numbers with norm(z0) / 2 not above the divergence
\* threshold, when max_iterations is at least the first n >= 1 with
\* norm(z0) / 2^n below the tolerance, compute_fixed_point returns
\* is_converged = true after at most max_iterations iterations with a fixed
\* point whose norm is below the tolerance.
C19_HalfConverges ==
    ( /\ ret.op = "compute_fixed_point"
      /\ ret.system_function = "half"
      /\ ~Unbounded(ret.operator_vector)
      /\ Gt(ret.tolerance, Num(0, 1))
      /\ ~Gt(HalvedNorm(ret.operator_vector, 1), ret.divergence_threshold)
      /\ \E n \in 1..ret.max_iterations :
             Lt(HalvedNorm(ret.operator_vector, n), ret.tolerance) )
    => /\ ret.outcome = "ok"
       /\ ret.state.is_converged
       /\ ret.state.current_iteration <= ret.max_iterations
       /\ Lt(Norm(ret.state.fixed_point), ret.tolerance)

\* C19's case: the map z / 2 has converged from a start vector other than
\* zero after several iterations.
C19_Witness ==
    /\ ret.op = "compute_fixed_point"
    /\ ret.system_function = "half"
    /\ ~Unbounded(ret.operator_vector)
    /\ Gt(Norm(ret.operator_vector), Num(0, 1))
    /\ ret.state.is_converged
    /\ ret.state.current_iteration >= 3

\* z_k and delta_k of the iteration z_0 = z0, z_(k+1) = f(z_k), with
\* delta_k = norm(z_k - z_(k-1)).
RECURSIVE ZAt(_, _, _)
ZAt(system_function, z0, k) ==
    IF k = 0 THEN z0 ELSE Apply(system_function, ZAt(system_function, z0, k - 1))

DeltaAt(system_function, z0, k) ==
    NormOfDifference(ZAt(system_function, z0, k), ZAt(system_function, z0, k - 1))

\* C20: for every system function and every max_iterations >= 0,
\* compute_fixed_point returns, having applied the function at most
\* max_iterations times, one of: converged with fixed point z_n at the first
\* iteration n whose delta is below the tolerance; not converged with no
\* fixed point at the first iteration n whose delta is above the divergence
\* threshold; not converged with the last z and iteration count
\* max_iterations when neither happened.  With max_iterations = 0 the call
\* raises UnboundLocalError.
C20_TerminalCases ==
    ret.op = "compute_fixed_point"
    => LET f == ret.system_function
           z0 == ret.operator_vector
           Terminal(n) ==
               \/ Lt(DeltaAt(f, z0, n), ret.tolerance)
               \/ Gt(DeltaAt(f, z0, n), ret.divergence_threshold)
           First(n) ==
               /\ Terminal(n)
               /\ \A k \in 1..(n - 1) : ~Terminal(k)
       IN  /\ ret.outcome = "ok"
           /\ ret.state.applications <= ret.max_iterations
           /\ \A n \in 1..ret.max_iterations :
                  First(n) =>
                      /\ ret.state.current_iteration = n
                      /\ IF Lt(DeltaAt(f, z0, n), ret.tolerance)
                         THEN /\ ret.state.is_converged
                              /\ ret.state.has_fixed_point
                              /\ ret.state.fixed_point = ZAt(f, z0, n)
                         ELSE /\ ~ret.state.is_converged
                              /\ ~ret.state.has_fixed_point
           /\ (\A n \in 1..ret.max_iterations : ~Terminal(n)) =>
                  /\ ~ret.state.is_converged
                  /\ ret.state.has_fixed_point
                  /\ ret.state.fixed_point = ZAt(f, z0, ret.max_iterations)
                  /\ ret.state.current_iteration = ret.max_iterations

-----------------------------------------------------------------------------
(* Chat sessions: C21, C22, C23 (under SpecChat) *)

\* The session sid of engine e is registered and has been idle for longer
\* than SESSION_TTL; it is registered and has not.
IdleTooLong(e, sid) ==
    /\ sid \in DOMAIN e.sessions
    /\ e.now - e.sessions[sid].last_active > SESSION_TTL

Live(e, sid) ==
    /\ sid \in DOMAIN e.sessions
    /\ e.now - e.sessions[sid].last_active <= SESSION_TTL

\* C21: a chat call appends to its session exactly the user message,
\* unchanged, and then the assistant's response; with a live session id the
\* session is that one; and every history has even length and alternates
\* user, assistant from the first message on (so n calls since creation or
\* the last clear leave 2n messages).
C21_ChatAppendsTwo ==
    [][ /\ ret'.op = "chat" =>
               LET live == Live(engine, ret'.session_id)
                   before == IF live
                             THEN engine.sessions[ret'.session_id].messages
                             ELSE <<>>
               IN  /\ live => ret'.result = ret'.session_id
                   /\ ret'.result \in DOMAIN engine'.sessions
                   /\ engine'.sessions[ret'.result].messages =
                          before \o <<[role |-> "user",
                                       content |-> ret'.user_message],
                                      [role |-> "assistant",
                                       content |-> ret'.response]>>
        /\ \A sid \in DOMAIN engine'.sessions :
               LET messages == engine'.sessions[sid].messages
               IN  /\ Len(messages) % 2 = 0
                   /\ \A i \in DOMAIN messages :
                          messages[i].role =
                              IF i % 2 = 1 THEN "user" ELSE "assistant"
      ]_vars

\* C21's case: a second chat call on a live session has brought its history
\* to four messages.
C21_Witness ==
    /\ ret.op = "chat"
    /\ ret.session_id # 0
    /\ ret.result = ret.session_id
    /\ Len(engine.sessions[ret.result].messages) = 4

\* C22: clear_session on a live session returns true, leaves the same
\* session ids registered, empties that session's history and leaves every
\* other session as it was; clear_session and get_history on an id that is
\* not registered return false and none and change nothing in the engine.
C22_ClearKeepsSession ==
    [][ /\ ret'.op = "clear_session" =>
               LET sid == ret'.session_id
               IN  /\ Live(engine, sid) =>
                          /\ ret'.outcome = "true"
                          /\ DOMAIN engine'.sessions = DOMAIN engine.sessions
                          /\ engine'.sessions[sid].messages = <<>>
                          /\ \A o \in DOMAIN engine.sessions \ {sid} :
                                 engine'.sessions[o] = engine.sessions[o]
                   /\ sid \notin DOMAIN engine.sessions =>
                          /\ ret'.outcome = "false"
                          /\ engine' = engine
        /\ ( /\ ret'.op = "get_history"
             /\ ret'.session_id \notin DOMAIN engine.sessions )
           => /\ ret'.outcome = "none"
              /\ engine' = engine
      ]_vars

\* C22's case: one of two registered sessions has been cleared, and the
\* other still has its history.
C22_Witness ==
    /\ ret.op = "clear_session"
    /\ ret.outcome = "true"
    /\ ret.session_id \in DOMAIN engine.sessions
    /\ engine.sessions[ret.session_id].messages = <<>>
    /\ \E o \in DOMAIN engine.sessions :
           o # ret.session_id /\ Len(engine.sessions[o].messages) = 4

\* C23: purge_expired_sessions removes exactly the sessions idle for longer
\* than SESSION_TTL, leaves the others as they were and returns the number
\* removed; get_session, get_history and clear_session on such a session
\* report none, none and false and remove it; chat with its id removes it
\* and answers in a new session with another id; and no operation changes a
\* session that has been idle for longer than SESSION_TTL other than by
\* removing it.
C23_ExpiredNeverUsed ==
    [][ /\ ret'.op = "purge_expired_sessions" =>
               LET expired == {sid \in DOMAIN engine.sessions :
                                   IdleTooLong(engine, sid)}
               IN  /\ DOMAIN engine'.sessions = DOMAIN engine.sessions \ expired
                   /\ \A sid \in DOMAIN engine'.sessions :
                          engine'.sessions[sid] = engine.sessions[sid]
                   /\ ret'.count = Cardinality(expired)
        /\ ( /\ ret'.op \in {"get_session", "get_history", "clear_session"}
             /\ IdleTooLong(engine, ret'.session_id) )
           => /\ ret'.outcome \in {"none", "false"}
              /\ ret'.session_id \notin DOMAIN engine'.sessions
        /\ (ret'.op = "chat" /\ IdleTooLong(engine, ret'.session_id))
           => /\ ret'.result # ret'.session_id
              /\ ret'.result \notin DOMAIN engine.sessions
              /\ ret'.session_id \notin DOMAIN engine'.sessions
              /\ Len(engine'.sessions[ret'.result].messages) = 2
        /\ \A sid \in DOMAIN engine.sessions :
               IdleTooLong(engine, sid) =>
                   \/ sid \notin DOMAIN engine'.sessions
                   \/ engine'.sessions[sid] = engine.sessions[sid]
      ]_vars

\* C23's case: a chat call that named a session idle for longer than
\* SESSION_TTL has been answered in a new session, the old one is gone, and
\* the clock has passed SESSION_TTL.
C23_Witness ==
    /\ ret.op = "chat"
    /\ ret.session_id # 0
    /\ ret.result # ret.session_id
    /\ ret.session_id \notin DOMAIN engine.sessions
    /\ ret.session_id <= engine.created
    /\ engine.now > SESSION_TTL

-----------------------------------------------------------------------------
(* Shadowing: C26 (under SpecShadow) *)

\* Two results hold the same items, whatever the order of their keys.
SameItems(a, b) ==
    {a[i] : i \in DOMAIN a} = {b[i] : i \in DOMAIN b}

\* The permutations of the host numbers 1..n.
HostOrders(n) ==
    {p \in [1..n -> 1..n] : \A i, j \in 1..n : p[i] = p[j] => i = j}

\* C26: when every host returns a result, the Shadowing stage passes exactly
\* when there is at least one host and all hosts' results hold the same
\* items, and fails otherwise (zero hosts, or some result differing); and
\* the verdict is the same for every order of the hosts.
C26_ShadowingVerdict ==
    ( /\ ret.op = "shadowing_execute"
      /\ \A i \in 1..ret.num_hosts : ~ret.outputs[i].raises )
    => /\ ret.outcome \in {"true", "false"}
       /\ ret.outcome = "true"
          <=> /\ ret.num_hosts > 0
              /\ \A i, j \in 1..ret.num_hosts :
                     SameItems(ret.outputs[i].items, ret.outputs[j].items)
       /\ \A p \in HostOrders(ret.num_hosts) :
              shadowing_execute(ret.num_hosts,
                                [i \in 1..ret.num_hosts |-> ret.outputs[p[i]]])
                  = ret.outcome

\* C26's case: three hosts have returned the same items with their keys in
\* different orders, and the stage has passed.
C26_Witness ==
    /\ ret.op = "shadowing_execute"
    /\ ret.num_hosts = 3
    /\ ret.outcome = "true"
    /\ \E i, j \in 1..3 : ret.outputs[i].items # ret.outputs[j].items

\* C24: liquidity_released is 0 on every execution that is not approved, and
\* on an approved one it is the release amount of the Canary stage's result,
\* the amount times the canary fraction (in hundredths here).
C24_ReleaseOnlyOnApproval ==
    \A i \in DOMAIN executions :
        LET e == executions[i]
        IN  /\ ~e.is_approved => e.liquidity_released_c = 0
            /\ e.is_approved =>
                   /\ e.stages["canary_rollout"].status = "completed"
                   /\ e.liquidity_released_c = e.context.amount * CanaryPercent

\* An execution whose Canary stage completed with a positive release amount
\* in its result, which is not approved and has released nothing.
C24_Witness ==
    \E i \in DOMAIN executions :
        /\ executions[i].stages["canary_rollout"].status = "completed"
        /\ executions[i].context.release_c > 0
        /\ ~executions[i].is_approved
        /\ executions[i].liquidity_released_c = 0

-----------------------------------------------------------------------------
(* Stages run one by one: C25, C27, C28, C29, C30 (under SpecStage) *)

\* A call execute_stage(id, stage, ...) on a registered execution has just
\* returned or raised.
StageCall(stage) ==
    /\ ret'.op = "execute_stage"
    /\ ret'.stage = stage
    /\ ret'.id \in DOMAIN executions

\* C25: when the context holds the entity id, the parameters and the target
\* fixed point, the Registration stage completes and records a non-empty
\* intent fingerprint as the execution's intent_hash.  The stage raises
\* instead and records nothing.
C25_RegistrationRecordsFingerprint ==
    [][ ( /\ StageCall("registration")
          /\ {"operator_id", "parameters", "target_fixed_point"}
                 \subseteq executions[ret'.id].context.keys )
        => /\ ret'.outcome = "true"
           /\ executions'[ret'.id].stages["registration"].status = "completed"
           /\ executions'[ret'.id].intent_hash # ""
      ]_vars

\* C27: in an execution whose Shadowing stage has completed, a Challenge
\* stage run without further arguments finds the shadow result in the
\* context, so it is not failed by its precondition, and it passes, the
\* determinism flag of a completed Shadowing being true.  The result was
\* stored under another key than the one Challenge reads.
C27_ChallengeFindsShadowResult ==
    [][ ( /\ StageCall("challenge_window")
          /\ ret'.bare
          /\ executions[ret'.id].stages["shadowing"].status = "completed" )
        => /\ executions'[ret'.id].stages["challenge_window"].error
                  # "Missing shadow execution result"
           /\ ret'.outcome = "true"
           /\ executions'[ret'.id].stages["challenge_window"].status = "completed"
      ]_vars

\* C28: on an execution whose amount is missing, zero or negative the Canary
\* stage returns false without raising, its record is FAILED with a reason,
\* and the execution is not approved.  With the amount missing (None) the
\* precondition check raises.
C28_CanaryRejectsNoAmount ==
    [][ ( /\ StageCall("canary_rollout")
          /\ \/ executions[ret'.id].context.amount_none
             \/ executions[ret'.id].context.amount <= 0 )
        => /\ ret'.outcome = "false"
           /\ executions'[ret'.id].stages["canary_rollout"].status = "failed"
           /\ executions'[ret'.id].stages["canary_rollout"].error # None
           /\ ~executions'[ret'.id].is_approved
      ]_vars

\* The place of a stage in the fixed order.
StageIndex(stage) == CHOOSE i \in DOMAIN GateStages : GateStages[i] = stage

\* C29: a stage is executed only when every earlier stage of the fixed order
\* is COMPLETED in that execution, so a stage is never COMPLETED while an
\* earlier one is not.  execute_stage runs whatever stage it is given.
C29_StagesInOrder ==
    \A i \in DOMAIN executions : \A st \in GateStage :
        executions[i].stages[st].status = "completed"
            => \A j \in 1..(StageIndex(st) - 1) :
                   executions[i].stages[GateStages[j]].status = "completed"

\* C30: a stage record that is COMPLETED or FAILED is never changed by a
\* later operation.  execute_stage replaces the record on every call.
C30_StageRecordsWriteOnce ==
    [][ \A i \in DOMAIN executions : \A st \in GateStage :
            executions[i].stages[st].status \in {"completed", "failed"}
                => /\ i \in DOMAIN executions'
                   /\ executions'[i].stages[st] = executions[i].stages[st]
      ]_vars

-----------------------------------------------------------------------------
(* Execution records and receipt integrity: C31, C32 (under SpecChain) *)

\* C31: create_proof_chain called with an execution record returns a chain
\* of five steps, which the generator stores.  The call raises instead,
\* ExecutionRecord having no to_dict, and no chain is stored.
C31_ChainFromExecutionRecord ==
    [][ (ret'.op = "create_proof_chain" /\ ret'.with_record)
        => /\ ret'.outcome = "ok"
           /\ Len(chains') = Len(chains) + 1
           /\ Len(chains'[Len(chains')].steps) = 5
      ]_vars

\* C32: a receipt generated from a chain that was built without an execution
\* record and is still as built passes its own integrity check: verify()
\* returns true and verify_c0_claim returns true.  The stored operation hash
\* is a step's full digest and never equals the truncated digest of the
\* joined step hashes.
C32_ReceiptVerifiesItself ==
    ( /\ ret.op = "verify_c0_claim"
      /\ receipts[ret.receipt].original )
        => /\ ret.verify
           /\ ret.outcome = "true"

-----------------------------------------------------------------------------
(* Orchestrator bookkeeping: C33 .. C39 *)

\* C33: register_node with an empty trajectory raises and changes no state:
\* no identity record is stored, no node is added, the metrics stay as they
\* were.
C33_EmptyTrajectoryRejected ==
    [][ (ret'.op = "register_node" /\ ret'.trajectory = "")
        => /\ ret'.outcome = "raise"
           /\ identities' = identities
           /\ nodes' = nodes
           /\ metrics' = metrics
           /\ flows' = flows
           /\ executions' = executions
           /\ status' = status
      ]_vars

\* register_node with an empty trajectory has just raised on a shield that
\* holds a node.
C33_Witness ==
    /\ ret.op = "register_node"
    /\ ret.trajectory = ""
    /\ ret.outcome = "raise"
    /\ nodes # <<>>

\* What a step adds to the registered balances: the initial balance of the
\* node a successful register_node call has just added.
RegisteredBalance ==
    IF ret'.op = "register_node" /\ ret'.outcome = "ok" /\ nodes' # nodes
    THEN ret'.initial_balance
    ELSE 0

\* C34: the sum of the node balances changes only by the initial balance of
\* a node being registered, so it always equals the sum of the initial
\* balances; a transfer that is executed debits the source and credits the
\* target by the amount, and any other transfer call changes no balance.
C34_BalanceConservation ==
    [][ /\ SumBalances(nodes') = SumBalances(nodes) + RegisteredBalance
        /\ ret'.op = "initiate_capital_flow" =>
              /\ DOMAIN nodes' = DOMAIN nodes
              /\ \A i \in DOMAIN nodes :
                    nodes'[i].balance =
                        IF ret'.outcome = "true"
                        THEN nodes[i].balance
                                 - (IF i = ret'.source THEN ret'.amount ELSE 0)
                                 + (IF i = ret'.target THEN ret'.amount ELSE 0)
                        ELSE nodes[i].balance
      ]_vars

\* Two nodes hold 5000 each, one of them has been quarantined by
\* detect_identity_violation, and a transfer between two registered nodes
\* that the source's balance covers has ended without being executed.
C34_Witness ==
    /\ Len(nodes) = 2
    /\ SumBalances(nodes) = 10000
    /\ \E i \in DOMAIN nodes : nodes[i].status = "quarantined"
    /\ ret.op = "initiate_capital_flow"
    /\ ret.source \in DOMAIN nodes
    /\ ret.target \in DOMAIN nodes
    /\ nodes[ret.source].balance >= ret.amount
    /\ ret.outcome # "true"

\* C35: between calls no flow record is pending: every record that
\* initiate_capital_flow created has ended as rejected or executed, with the
\* id of a registered gate execution, and it is executed exactly when its
\* receipt is set.  A call that ends with an exception of the gate leaves
\* its record pending, with no gate execution id.
C35_FlowsLeavePending ==
    \A i \in DOMAIN flows :
        /\ flows[i].status \in {"rejected", "executed"}
        /\ flows[i].gate_execution_id \in DOMAIN executions
        /\ flows[i].status = "executed" <=> flows[i].receipt # <<>>
        /\ flows[i].status = "executed" <=> flows[i].executed

\* C36: the metrics agree with the node registry: total_nodes is the number
\* of nodes, protected_nodes and exposed_nodes count the nodes of those
\* statuses, total_value_locked is the sum of the balances, and the health
\* score (hrl_num / hrl_den) lies between 0 and 1 when no balance is
\* negative.
C36_MetricsAgree ==
    /\ metrics.total_nodes = Len(nodes)
    /\ metrics.protected_nodes =
           Cardinality({i \in DOMAIN nodes : nodes[i].status = "protected"})
    /\ metrics.exposed_nodes =
           Cardinality({i \in DOMAIN nodes : nodes[i].status = "exposed"})
    /\ metrics.total_value_locked = SumBalances(nodes)
    /\ (\A i \in DOMAIN nodes : nodes[i].balance >= 0)
           => /\ metrics.hrl_den > 0
              /\ 0 <= metrics.hrl_num
              /\ metrics.hrl_num <= metrics.hrl_den

\* Two nodes that hold more than the cap of the health score between them,
\* one of them quarantined by detect_identity_violation: the health score is
\* strictly between 0 and 1.
C36_Witness ==
    /\ Len(nodes) = 2
    /\ \E i \in DOMAIN nodes : nodes[i].status = "quarantined"
    /\ \E i \in DOMAIN nodes : nodes[i].status = "protected"
    /\ SumBalances(nodes) > 1000000
    /\ 0 < metrics.hrl_num
    /\ metrics.hrl_num < metrics.hrl_den

\* C37: after a check_collapse_thresholds call the triggered list of the
\* metrics is the list the call returned, and that is the set of the
\* thresholds whose triggered flag is set; a call in which nothing triggers
\* leaves the list empty and the status ACTIVE.  The code writes the list
\* only when something triggered, and a threshold the call was given no
\* value for keeps its flag.
C37_TriggeredListCurrent ==
    [][ ret'.op = "check_collapse_thresholds"
        => /\ metrics'.collapse_thresholds_triggered = ret'.triggered
           /\ Range(ret'.triggered)
                  = {t \in DOMAIN thresholds' : thresholds'[t].is_triggered}
           /\ ret'.triggered = <<>> => status' = "active"
      ]_vars

\* C38: once the status is LOCKED it stays LOCKED under every operation
\* other than unlock_shield and set_status, and no transfer is executed
\* while it is LOCKED.  check_collapse_thresholds sets the status to ACTIVE
\* or COMPROMISED whatever it was.
C38_LockedStaysLocked ==
    [][ (status = "locked" /\ ret'.op \notin {"unlock_shield", "set_status"})
        => /\ status' = "locked"
           /\ ret'.op = "initiate_capital_flow" => ret'.outcome # "true"
      ]_vars

=============================================================================
